---- MODULE Spec2Model ----
(***************************************************************************)
(* Model of admin-bot: the service supervisor of cmd/main.go (startup,     *)
(* configuration reload, shutdown), the HTTP server wrapper of             *)
(* pkg/httpserver, the cache cleaner of pkg/cachecleaner and the cache     *)
(* layer of pkg/forwardproxy.                                              *)
(***************************************************************************)
EXTENDS Integers, Sequences, FiniteSets, TLC

\* ------------------------------------------------------------------------
\* Bounds of the exploration
\* ------------------------------------------------------------------------
MaxChanges == 2   \* configuration file changes delivered by the watcher
MaxServers == 2   \* httpserver.Server objects created in one run
MaxCleaners == 2  \* StartCleaner calls in one run
MaxAgain == 1     \* extra direct calls of startServices (idempotence runs)

\* ------------------------------------------------------------------------
\* Configuration snapshots (pkg/config/structs.go)
\* ------------------------------------------------------------------------
Ports == {8080, 9090}
StaticPaths == {"www"}
CacheDirs == {"cache"}
TTLStrings == {"1d", "0"}
IntervalStrings == {"1h", "2h"}

CacheCfg ==
  [Enabled : {TRUE}, CacheDir : CacheDirs, CacheTTL : TTLStrings]

ProxyConfig ==
  [Enabled : BOOLEAN, Cache : CacheCfg]

HTTPConfig ==
  [Enabled : BOOLEAN, Addr : {"0.0.0.0"}, Port : Ports,
   Static : StaticPaths, ForwardProxy : ProxyConfig]

CacheCleanupConfig ==
  [Interval : IntervalStrings]

Config ==
  [HTTP : HTTPConfig, ProxyCacheCleanup : CacheCleanupConfig]

\* Durations are counted in hours.
Hour == 1

DurationError == -1

StrToDuration(durationStr) ==
  CASE durationStr = "" -> DurationError
    [] durationStr = "0" -> 0
    [] durationStr = "1h" -> 1 * Hour
    [] durationStr = "2h" -> 2 * Hour
    [] durationStr = "1d" -> 24 * Hour
    [] durationStr = "2d" -> 48 * Hour
    [] durationStr = "7d" -> 7 * 24 * Hour
    [] OTHER -> DurationError

GetCacheTTL(c) ==
  StrToDuration(IF c.CacheTTL = "" THEN "7d" ELSE c.CacheTTL)

GetInterval(c) ==
  LET d == StrToDuration(IF c.Interval = "" THEN "1h" ELSE c.Interval)
  IN  IF d = DurationError THEN DurationError
      ELSE IF d <= 0 THEN Hour ELSE d

validateConfig(cfg) ==
  /\ (cfg.HTTP.ForwardProxy.Enabled /\ cfg.HTTP.ForwardProxy.Cache.Enabled)
       => /\ cfg.HTTP.ForwardProxy.Cache.CacheDir # ""
          /\ GetCacheTTL(cfg.HTTP.ForwardProxy.Cache) # DurationError
  /\ (/\ cfg.HTTP.ForwardProxy.Enabled
      /\ cfg.HTTP.ForwardProxy.Cache.Enabled
      /\ cfg.HTTP.ForwardProxy.Cache.CacheDir # "")
       => GetInterval(cfg.ProxyCacheCleanup) # DurationError

ValidConfigs == {cfg \in Config : validateConfig(cfg)}

\* One edit of the configuration file changes at most one setting; a reload
\* that follows several edits sees them combined.
Edits(cfg) ==
  {c \in
     {[cfg EXCEPT !.HTTP.Enabled = v] : v \in BOOLEAN}
       \cup {[cfg EXCEPT !.HTTP.Port = v] : v \in Ports}
       \cup {[cfg EXCEPT !.HTTP.Static = v] : v \in StaticPaths}
       \cup {[cfg EXCEPT !.HTTP.ForwardProxy.Enabled = v] : v \in BOOLEAN}
       \cup {[cfg EXCEPT !.HTTP.ForwardProxy.Cache.CacheDir = v] :
                v \in CacheDirs}
       \cup {[cfg EXCEPT !.HTTP.ForwardProxy.Cache.CacheTTL = v] :
                v \in TTLStrings}
       \cup {[cfg EXCEPT !.ProxyCacheCleanup.Interval = v] :
                v \in IntervalStrings} :
     validateConfig(c)}

\* ------------------------------------------------------------------------
\* State
\* ------------------------------------------------------------------------
VARIABLES
  pc,                 \* position of main: start, select, restart, wait, exit
  currentConfig,      \* pkg/config: the globally current snapshot
  activeConfig,       \* main: snapshot the running services were built from
  newCfg,             \* main: snapshot fetched by the reload branch
  reloadChan,         \* number of notifications buffered (capacity 1)
  signalChan,         \* TRUE when a shutdown signal is buffered
  currentHttpServer,  \* index into servers, or NoHandle (nil)
  currentCleanerStop, \* index into cleaners, or NoHandle (nil)
  serverWg,           \* counter of the WaitGroup serverWg
  servers,            \* every httpserver.Server created so far
  cleaners,           \* every StartCleaner call so far
  changes,            \* configuration changes delivered so far
  again,              \* direct repeated calls of startServices so far
  rejects,            \* configuration changes the watcher rejected so far
  reqA, reqB,         \* two requests handed to generateCacheKey
  keyA, keyB,         \* the keys generateCacheKey returned for them
  now,                \* wall clock, in units of the smallest TTL
  handler,            \* the CacheHandler: cacheDir and cacheTTL
  files,              \* the cache directory: path -> NoFile or file
  calls,              \* path -> what the latest call for that path did
  last,               \* the call that has just returned, and the one before
                      \* it for its path
  cmpOld, cmpNew,     \* two snapshots handed to compareConfigs
  cmpFlags,           \* the flags compareConfigs returned for them
  tree,               \* a cache directory as the evictor walks it
  swept,              \* what the sweep that has just returned did
  proxyH,             \* the ProxyHandler: its configuration and its cache
  listen,             \* the address and the port the server listens on
  proxyIn,            \* a plain-HTTP request on its way into HandleHTTP
  proxyOut,           \* what HandleHTTP did with it
  tun                 \* one CONNECT request and its tunnel

supVars == <<pc, currentConfig, activeConfig, newCfg, reloadChan, signalChan,
             currentHttpServer, currentCleanerStop, serverWg, servers,
             cleaners, changes, again,
                 rejects>>

keyVars == <<reqA, reqB, keyA, keyB>>

cacheVars == <<now, handler, files, calls, last>>

cmpVars == <<cmpOld, cmpNew, cmpFlags>>

sweepVars == <<tree, swept>>

proxyVars == <<proxyH, listen, proxyIn, proxyOut>>

tunnelVars == <<tun>>

vars == <<supVars, keyVars, cacheVars, cmpVars, sweepVars, proxyVars,
          tunnelVars>>

\* What the steps of one component leave alone.
notSup == <<keyVars, cacheVars, cmpVars, sweepVars, proxyVars, tunnelVars>>
notKey == <<supVars, cacheVars, cmpVars, sweepVars, proxyVars, tunnelVars>>
notCache == <<supVars, keyVars, cmpVars, sweepVars, proxyVars, tunnelVars>>
notCmp == <<supVars, keyVars, cacheVars, sweepVars, proxyVars, tunnelVars>>
notSweep == <<supVars, keyVars, cacheVars, cmpVars, proxyVars, tunnelVars>>
notProxy == <<supVars, keyVars, cacheVars, cmpVars, sweepVars, tunnelVars>>
notTunnel == <<supVars, keyVars, cacheVars, cmpVars, sweepVars, proxyVars>>

NoHandle == 0
NoConfig == [none |-> TRUE]
NoRequest == [none |-> TRUE]
NoKey == <<>>
NoHandler == [none |-> TRUE]
NoFile == [none |-> TRUE]
NoCall == [none |-> TRUE]
NoFlags == [none |-> TRUE]
NoSweep == [none |-> TRUE]
NoTunnel == [none |-> TRUE]

\* No cache key is being computed.
KeyIdle ==
  /\ reqA = NoRequest /\ reqB = NoRequest
  /\ keyA = NoKey /\ keyB = NoKey

\* No cache handler exists.
CacheIdle ==
  /\ now = 0
  /\ handler = NoHandler
  /\ files = <<>>
  /\ calls = <<>>
  /\ last = NoCall

\* compareConfigs is not being called.
CmpIdle == cmpOld = NoConfig /\ cmpNew = NoConfig /\ cmpFlags = NoFlags

\* No sweep is running.
SweepIdle == tree = <<>> /\ swept = NoSweep

\* No plain-HTTP request is being handled.
ProxyIdle ==
  /\ proxyH = NoHandler /\ listen = NoConfig
  /\ proxyIn = NoRequest /\ proxyOut = NoCall

\* No CONNECT request is being handled.
TunnelIdle == tun = NoTunnel

\* ------------------------------------------------------------------------
\* pkg/httpserver: Server
\* ------------------------------------------------------------------------
\* server : the field s.server, "nil" or "set"
\* start  : the goroutine of main.go running Server.Start:
\*          "spawned" (launched, Start not yet run), "blocked" (at <-ctx.Done())
\* srv    : the http.Server: "none", "new", "listening", "closed"
\* las    : the goroutine running ListenAndServe: "none", "pending",
\*          "serving" (returns once srv is "closed"), "returned"
NewServer(cfg) ==
  [initialConfig |-> [HTTP |-> cfg.HTTP], server |-> "nil", start |-> "none",
   srv |-> "none", las |-> "none"]

\* Server.Stop: a nil s.server makes it a no-op; otherwise Shutdown closes the
\* listener (and makes a later ListenAndServe return ErrServerClosed) and the
\* field is cleared.
Stop(s) ==
  IF s.server = "nil" THEN s
  ELSE [s EXCEPT !.srv = "closed", !.server = "nil"]

\* ------------------------------------------------------------------------
\* pkg/cachecleaner: StartCleaner
\* ------------------------------------------------------------------------
\* worker   : TRUE when the goroutine was launched (FALSE: no-op stop handle)
\* stopChan : "open" or "closed"
\* loop     : "none", "select" (waiting for tick or stop), "cleanup", "returned"
\* panicked : TRUE once stopFunc closed a stopChan that was closed already
\* StartCleaner without the check of the TTL.
StartCleanerAnyTTL(interval, cacheDir, cacheTTL) ==
  IF interval <= 0 \/ cacheDir = ""
    THEN [interval |-> interval, cacheDir |-> cacheDir, cacheTTL |-> cacheTTL,
          worker |-> FALSE, stopChan |-> "open", loop |-> "none",
          panicked |-> FALSE]
    ELSE [interval |-> interval, cacheDir |-> cacheDir, cacheTTL |-> cacheTTL,
          worker |-> TRUE, stopChan |-> "open", loop |-> "select",
          panicked |-> FALSE]

StartCleaner(interval, cacheDir, cacheTTL) ==
  IF interval <= 0 \/ cacheDir = "" \/ cacheTTL <= 0
    THEN [interval |-> interval, cacheDir |-> cacheDir, cacheTTL |-> cacheTTL,
          worker |-> FALSE, stopChan |-> "open", loop |-> "none",
          panicked |-> FALSE]
    ELSE [interval |-> interval, cacheDir |-> cacheDir, cacheTTL |-> cacheTTL,
          worker |-> TRUE, stopChan |-> "open", loop |-> "select",
          panicked |-> FALSE]

\* stopFunc: close(stopChan), which panics on a channel that is closed
\* already; the no-op handle changes nothing.
stopFunc(c) ==
  IF c.worker
    THEN IF c.stopChan = "closed"
           THEN [c EXCEPT !.panicked = TRUE]
           ELSE [c EXCEPT !.stopChan = "closed"]
    ELSE c

\* ------------------------------------------------------------------------
\* cmd/main.go
\* ------------------------------------------------------------------------
ShouldRunCleaner(cfg) ==
  /\ cfg.HTTP.ForwardProxy.Enabled
  /\ cfg.HTTP.ForwardProxy.Cache.Enabled
  /\ cfg.HTTP.ForwardProxy.Cache.CacheDir # ""

\* compareConfigs with the cleaner restarted on every HTTP change.
compareConfigsCoarse(oldCfg, new) ==
  [restartServer |-> oldCfg.HTTP # new.HTTP,
   restartCleaner |->
     \/ oldCfg.HTTP # new.HTTP
     \/ oldCfg.ProxyCacheCleanup.Interval # new.ProxyCacheCleanup.Interval]

\* compareConfigs without the comparison of the TTL.
compareConfigsNoTTL(oldCfg, new) ==
  [restartServer |-> oldCfg.HTTP # new.HTTP,
   restartCleaner |->
     IF ShouldRunCleaner(new)
       THEN \/ ~ShouldRunCleaner(oldCfg)
            \/ oldCfg.ProxyCacheCleanup.Interval
                 # new.ProxyCacheCleanup.Interval
            \/ oldCfg.HTTP.ForwardProxy.Cache.CacheDir
                 # new.HTTP.ForwardProxy.Cache.CacheDir
       ELSE ShouldRunCleaner(oldCfg)]

\* compareConfigs looking at the listener's settings only.
compareConfigsListenerOnly(oldCfg, new) ==
  [restartServer |->
     \/ oldCfg.HTTP.Enabled # new.HTTP.Enabled
     \/ oldCfg.HTTP.Addr # new.HTTP.Addr
     \/ oldCfg.HTTP.Port # new.HTTP.Port,
   restartCleaner |->
     IF ShouldRunCleaner(new)
       THEN \/ ~ShouldRunCleaner(oldCfg)
            \/ oldCfg.ProxyCacheCleanup.Interval
                 # new.ProxyCacheCleanup.Interval
            \/ oldCfg.HTTP.ForwardProxy.Cache.CacheDir
                 # new.HTTP.ForwardProxy.Cache.CacheDir
            \/ oldCfg.HTTP.ForwardProxy.Cache.CacheTTL
                 # new.HTTP.ForwardProxy.Cache.CacheTTL
       ELSE ShouldRunCleaner(oldCfg)]

\* compareConfigs comparing the evictor's settings whether or not the evictor
\* should run.
compareConfigsAnySetting(oldCfg, new) ==
  [restartServer |-> oldCfg.HTTP # new.HTTP,
   restartCleaner |->
     \/ ShouldRunCleaner(oldCfg) # ShouldRunCleaner(new)
     \/ oldCfg.ProxyCacheCleanup.Interval # new.ProxyCacheCleanup.Interval
     \/ oldCfg.HTTP.ForwardProxy.Cache.CacheDir
          # new.HTTP.ForwardProxy.Cache.CacheDir
     \/ oldCfg.HTTP.ForwardProxy.Cache.CacheTTL
          # new.HTTP.ForwardProxy.Cache.CacheTTL]

compareConfigs(oldCfg, new) ==
  LET oldProxyCacheEnabled == ShouldRunCleaner(oldCfg)
      newProxyCacheEnabled == ShouldRunCleaner(new)
  IN  [restartServer |-> oldCfg.HTTP # new.HTTP,
       restartCleaner |->
         IF newProxyCacheEnabled
           THEN \/ ~oldProxyCacheEnabled
                \/ oldCfg.ProxyCacheCleanup.Interval
                     # new.ProxyCacheCleanup.Interval
                \/ oldCfg.HTTP.ForwardProxy.Cache.CacheDir
                     # new.HTTP.ForwardProxy.Cache.CacheDir
                \/ oldCfg.HTTP.ForwardProxy.Cache.CacheTTL
                     # new.HTTP.ForwardProxy.Cache.CacheTTL
           ELSE oldProxyCacheEnabled]

CleanerFor(cfg) ==
  LET i == GetInterval(cfg.ProxyCacheCleanup)
      t == GetCacheTTL(cfg.HTTP.ForwardProxy.Cache)
  IN  StartCleaner(IF i = DurationError THEN Hour ELSE i,
                   cfg.HTTP.ForwardProxy.Cache.CacheDir,
                   IF t = DurationError THEN StrToDuration("7d") ELSE t)

\* startServices without the "only start if not already running" checks.
startServicesUnguarded(cfg) ==
  /\ IF cfg.HTTP.Enabled
       THEN /\ servers' = Append(servers,
                            [NewServer(cfg) EXCEPT !.start = "spawned"])
            /\ currentHttpServer' = Len(servers) + 1
            /\ serverWg' = serverWg + 1
       ELSE UNCHANGED <<servers, currentHttpServer, serverWg>>
  /\ IF ShouldRunCleaner(cfg)
       THEN /\ cleaners' = Append(cleaners, CleanerFor(cfg))
            /\ currentCleanerStop' = Len(cleaners) + 1
       ELSE UNCHANGED <<cleaners, currentCleanerStop>>

startServices(cfg) ==
  /\ IF cfg.HTTP.Enabled
       THEN IF currentHttpServer = NoHandle
              THEN /\ servers' = Append(servers,
                                   [NewServer(cfg) EXCEPT !.start = "spawned"])
                   /\ currentHttpServer' = Len(servers) + 1
                   /\ serverWg' = serverWg + 1
              ELSE UNCHANGED <<servers, currentHttpServer, serverWg>>
       ELSE IF currentHttpServer # NoHandle
              THEN /\ servers' = [servers EXCEPT ![currentHttpServer] = Stop(@)]
                   /\ currentHttpServer' = NoHandle
                   /\ UNCHANGED serverWg
              ELSE UNCHANGED <<servers, currentHttpServer, serverWg>>
  /\ IF ShouldRunCleaner(cfg)
       THEN IF currentCleanerStop = NoHandle
              THEN /\ cleaners' = Append(cleaners, CleanerFor(cfg))
                   /\ currentCleanerStop' = Len(cleaners) + 1
              ELSE UNCHANGED <<cleaners, currentCleanerStop>>
       ELSE IF currentCleanerStop # NoHandle
              THEN /\ cleaners' =
                        [cleaners EXCEPT ![currentCleanerStop] = stopFunc(@)]
                   /\ currentCleanerStop' = NoHandle
              ELSE UNCHANGED <<cleaners, currentCleanerStop>>

\* stopServices stopping both subsystems whatever the flags.
stopServicesAll(stopServer, stopCleaner) ==
  /\ IF currentHttpServer # NoHandle
       THEN /\ servers' = [servers EXCEPT ![currentHttpServer] = Stop(@)]
            /\ currentHttpServer' = NoHandle
       ELSE UNCHANGED <<servers, currentHttpServer>>
  /\ IF currentCleanerStop # NoHandle
       THEN /\ cleaners' =
                 [cleaners EXCEPT ![currentCleanerStop] = stopFunc(@)]
            /\ currentCleanerStop' = NoHandle
       ELSE UNCHANGED <<cleaners, currentCleanerStop>>
  /\ UNCHANGED serverWg

\* stopServices leaving currentCleanerStop set after calling it.
stopServicesKeepHandle(stopServer, stopCleaner) ==
  /\ IF stopServer /\ currentHttpServer # NoHandle
       THEN /\ servers' = [servers EXCEPT ![currentHttpServer] = Stop(@)]
            /\ currentHttpServer' = NoHandle
       ELSE UNCHANGED <<servers, currentHttpServer>>
  /\ IF stopCleaner /\ currentCleanerStop # NoHandle
       THEN cleaners' = [cleaners EXCEPT ![currentCleanerStop] = stopFunc(@)]
       ELSE UNCHANGED cleaners
  /\ UNCHANGED <<currentCleanerStop, serverWg>>

stopServices(stopServer, stopCleaner) ==
  /\ IF stopServer /\ currentHttpServer # NoHandle
       THEN /\ servers' = [servers EXCEPT ![currentHttpServer] = Stop(@)]
            /\ currentHttpServer' = NoHandle
       ELSE UNCHANGED <<servers, currentHttpServer>>
  /\ IF stopCleaner /\ currentCleanerStop # NoHandle
       THEN /\ cleaners' =
                 [cleaners EXCEPT ![currentCleanerStop] = stopFunc(@)]
            /\ currentCleanerStop' = NoHandle
       ELSE UNCHANGED <<cleaners, currentCleanerStop>>
  /\ UNCHANGED serverWg

\* Exploration stops where startServices(cfg) would exceed the bounds.
WithinBounds(cfg) ==
  /\ (cfg.HTTP.Enabled /\ currentHttpServer = NoHandle)
       => Len(servers) < MaxServers
  /\ (ShouldRunCleaner(cfg) /\ currentCleanerStop = NoHandle)
       => Len(cleaners) < MaxCleaners

\* main: startServices(activeConfig) after the initial load.
Startup ==
  /\ pc = "start"
  /\ WithinBounds(activeConfig)
  /\ startServices(activeConfig)
  /\ pc' = "select"
  /\ UNCHANGED <<currentConfig, activeConfig, newCfg, reloadChan, signalChan,
                 changes, again,
                 rejects>>
  /\ UNCHANGED notSup

\* main, case sig := <-signalChan
Shutdown ==
  /\ pc = "select"
  /\ signalChan
  /\ signalChan' = FALSE
  /\ stopServices(TRUE, TRUE)
  /\ pc' = "wait"
  /\ UNCHANGED <<currentConfig, activeConfig, newCfg, reloadChan, changes,
                 again,
                 rejects>>
  /\ UNCHANGED notSup

\* The no-restart path without the update of the active snapshot.
ReloadNoRestartStale ==
  /\ pc = "select"
  /\ reloadChan = 1
  /\ LET r == compareConfigs(activeConfig, currentConfig)
     IN  ~r.restartServer /\ ~r.restartCleaner
  /\ reloadChan' = 0
  /\ UNCHANGED <<pc, currentConfig, activeConfig, newCfg, signalChan,
                 currentHttpServer, currentCleanerStop, serverWg, servers,
                 cleaners, changes, again,
                 rejects>>
  /\ UNCHANGED notSup

\* main, case <-reloadChan, neither restart flag set.
ReloadNoRestart ==
  /\ pc = "select"
  /\ reloadChan = 1
  /\ LET r == compareConfigs(activeConfig, currentConfig)
     IN  /\ ~r.restartServer /\ ~r.restartCleaner
         /\ activeConfig' = currentConfig
  /\ reloadChan' = 0
  /\ UNCHANGED <<pc, currentConfig, newCfg, signalChan, currentHttpServer,
                 currentCleanerStop, serverWg, servers, cleaners, changes,
                 again,
                 rejects>>
  /\ UNCHANGED notSup

\* main, case <-reloadChan, a restart flag set: up to the return of
\* stopServices.
ReloadStop ==
  /\ pc = "select"
  /\ reloadChan = 1
  /\ LET r == compareConfigs(activeConfig, currentConfig)
     IN  /\ r.restartServer \/ r.restartCleaner
         /\ stopServices(r.restartServer, r.restartCleaner)
  /\ newCfg' = currentConfig
  /\ reloadChan' = 0
  /\ pc' = "restart"
  /\ UNCHANGED <<currentConfig, activeConfig, signalChan, changes, again,
                 rejects>>
  /\ UNCHANGED notSup

\* main, reload branch continued: swap the snapshot, then startServices.
ReloadStart ==
  /\ pc = "restart"
  /\ WithinBounds(newCfg)
  /\ activeConfig' = newCfg
  /\ startServices(newCfg)
  /\ newCfg' = NoConfig
  /\ pc' = "select"
  /\ UNCHANGED <<currentConfig, reloadChan, signalChan, changes, again,
                 rejects>>
  /\ UNCHANGED notSup

\* main: serverWg.Wait() returns once the counter is zero.
WaitDone ==
  /\ pc = "wait"
  /\ serverWg = 0
  /\ pc' = "exit"
  /\ UNCHANGED <<currentConfig, activeConfig, newCfg, reloadChan, signalChan,
                 currentHttpServer, currentCleanerStop, serverWg, servers,
                 cleaners, changes, again,
                 rejects>>
  /\ UNCHANGED notSup

\* A second, direct call of startServices with the active snapshot.
StartServicesAgain ==
  /\ pc = "select"
  /\ again < MaxAgain
  /\ WithinBounds(activeConfig)
  /\ startServices(activeConfig)
  /\ again' = again + 1
  /\ UNCHANGED <<pc, currentConfig, activeConfig, newCfg, reloadChan,
                 signalChan, changes, rejects>>
  /\ UNCHANGED notSup

\* ------------------------------------------------------------------------
\* Environment: the file watcher and the operating system
\* ------------------------------------------------------------------------
\* OnConfigChange with a valid file: replace the global snapshot, then a
\* non-blocking send on reloadChan (dropped when the channel is full).
ConfigChange(cfg) ==
  /\ pc = "select"
  /\ changes < MaxChanges
  /\ changes' = changes + 1
  /\ currentConfig' = cfg
  /\ reloadChan' = 1
  /\ UNCHANGED <<pc, activeConfig, newCfg, signalChan, currentHttpServer,
                 currentCleanerStop, serverWg, servers, cleaners, again,
                 rejects>>
  /\ UNCHANGED notSup

\* What the watcher may find in the file after a change: a valid edit, a file
\* that cannot be read, one that cannot be decoded into the struct, or one
\* that fails validation (no cache directory, a TTL or an interval that is
\* no duration, with the proxy cache on).
InvalidEdits(cfg) ==
  LET on == [cfg EXCEPT !.HTTP.ForwardProxy.Enabled = TRUE]
  IN  {c \in {[on EXCEPT !.HTTP.ForwardProxy.Cache.CacheDir = ""],
              [on EXCEPT !.HTTP.ForwardProxy.Cache.CacheTTL = "soon"],
              [on EXCEPT !.ProxyCacheCleanup.Interval = "often"]} :
         ~validateConfig(c)}

ConfigFiles(cfg) ==
  {[readErr |-> FALSE, unmarshalErr |-> FALSE, cfg |-> c] :
     c \in Edits(cfg) \cup InvalidEdits(cfg)}
    \cup {[readErr |-> TRUE, unmarshalErr |-> FALSE, cfg |-> NoConfig],
          [readErr |-> FALSE, unmarshalErr |-> TRUE, cfg |-> NoConfig]}

\* OnConfigChange without the call of validateConfig.
OnConfigChangeUnvalidated(file) ==
  /\ pc = "select"
  /\ changes < MaxChanges
  /\ changes' = changes + 1
  /\ IF file.readErr \/ file.unmarshalErr
       THEN /\ rejects' = rejects + 1
            /\ UNCHANGED <<currentConfig, reloadChan>>
       ELSE /\ currentConfig' = file.cfg
            /\ reloadChan' = 1
            /\ UNCHANGED rejects
  /\ UNCHANGED <<pc, activeConfig, newCfg, signalChan, currentHttpServer,
                 currentCleanerStop, serverWg, servers, cleaners, again>>
  /\ UNCHANGED notSup

\* The OnConfigChange callback: ReadInConfig, Unmarshal and validateConfig
\* each return early on failure; otherwise the global snapshot is replaced
\* and a notification is sent without blocking.
OnConfigChange(file) ==
  /\ pc = "select"
  /\ changes < MaxChanges
  /\ changes' = changes + 1
  /\ IF file.readErr \/ file.unmarshalErr \/ ~validateConfig(file.cfg)
       THEN /\ rejects' = rejects + 1
            /\ UNCHANGED <<currentConfig, reloadChan>>
       ELSE /\ currentConfig' = file.cfg
            /\ reloadChan' = 1
            /\ UNCHANGED rejects
  /\ UNCHANGED <<pc, activeConfig, newCfg, signalChan, currentHttpServer,
                 currentCleanerStop, serverWg, servers, cleaners, again>>
  /\ UNCHANGED notSup

Signal ==
  /\ pc = "select"
  /\ ~signalChan
  /\ signalChan' = TRUE
  /\ UNCHANGED <<pc, currentConfig, activeConfig, newCfg, reloadChan,
                 currentHttpServer, currentCleanerStop, serverWg, servers,
                 cleaners, changes, again,
                 rejects>>
  /\ UNCHANGED notSup

\* ------------------------------------------------------------------------
\* Goroutines
\* ------------------------------------------------------------------------
supFrame ==
  UNCHANGED <<pc, currentConfig, activeConfig, newCfg, reloadChan, signalChan,
              currentHttpServer, currentCleanerStop, serverWg, changes, again,
              rejects,
              notSup>>

\* Server.Start up to <-ctx.Done(): builds the http.Server, stores it in
\* s.server and launches the ListenAndServe goroutine. The context is
\* context.Background(), so the receive never completes.
ServerStart(i) ==
  /\ i \in DOMAIN servers
  /\ servers[i].start = "spawned"
  /\ servers' = [servers EXCEPT ![i] =
                   [@ EXCEPT !.start = "blocked", !.server = "set",
                             !.srv = "new", !.las = "pending"]]
  /\ UNCHANGED cleaners
  /\ supFrame

AddrInUse(i) ==
  \E j \in DOMAIN servers :
    /\ j # i
    /\ servers[j].srv = "listening"
    /\ servers[j].initialConfig.HTTP.Addr = servers[i].initialConfig.HTTP.Addr
    /\ servers[j].initialConfig.HTTP.Port = servers[i].initialConfig.HTTP.Port

\* s.server.ListenAndServe(): ErrServerClosed after Shutdown, a bind error
\* when the address is taken, otherwise the listener is bound.
ListenAndServe(i) ==
  /\ i \in DOMAIN servers
  /\ servers[i].las = "pending"
  /\ servers' = [servers EXCEPT ![i] =
                   IF @.srv = "closed" \/ AddrInUse(i)
                     THEN [@ EXCEPT !.las = "returned"]
                     ELSE [@ EXCEPT !.las = "serving", !.srv = "listening"]]
  /\ UNCHANGED cleaners
  /\ supFrame

\* The cleaner's select takes the ticker case: runCleanup starts. A closed
\* stopChan does not disable this case: select picks among the ready cases.
CleanerTick(i) ==
  /\ i \in DOMAIN cleaners
  /\ cleaners[i].loop = "select"
  /\ cleaners' = [cleaners EXCEPT ![i] = [@ EXCEPT !.loop = "cleanup"]]
  /\ UNCHANGED servers
  /\ supFrame

\* runCleanup returns; back to the select.
CleanerSwept(i) ==
  /\ i \in DOMAIN cleaners
  /\ cleaners[i].loop = "cleanup"
  /\ cleaners' = [cleaners EXCEPT ![i] = [@ EXCEPT !.loop = "select"]]
  /\ UNCHANGED servers
  /\ supFrame

\* The cleaner's select takes the stopChan case: ticker.Stop(), return.
CleanerReturn(i) ==
  /\ i \in DOMAIN cleaners
  /\ cleaners[i].loop = "select"
  /\ cleaners[i].stopChan = "closed"
  /\ cleaners' = [cleaners EXCEPT ![i] = [@ EXCEPT !.loop = "returned"]]
  /\ UNCHANGED servers
  /\ supFrame

\* ------------------------------------------------------------------------
\* Specifications of the supervisor
\* ------------------------------------------------------------------------
\* The initial file sets the port and the cleanup interval to the values of
\* setDefaults; the other values of Ports and IntervalStrings are reached by
\* edits (nothing in the program distinguishes one port or interval from
\* another).
InitialConfigs ==
  {cfg \in ValidConfigs :
     cfg.HTTP.Port = 8080 /\ cfg.ProxyCacheCleanup.Interval = "1h"}

SupInit(cfgs) ==
  /\ pc = "start"
  /\ currentConfig \in cfgs
  /\ activeConfig = currentConfig
  /\ newCfg = NoConfig
  /\ reloadChan = 0
  /\ signalChan = FALSE
  /\ currentHttpServer = NoHandle
  /\ currentCleanerStop = NoHandle
  /\ serverWg = 0
  /\ servers = <<>>
  /\ cleaners = <<>>
  /\ changes = 0
  /\ again = 0
  /\ rejects = 0

Init ==
  /\ SupInit(InitialConfigs)
  /\ KeyIdle
  /\ CacheIdle
  /\ CmpIdle /\ SweepIdle /\ ProxyIdle /\ TunnelIdle

Main ==
  \/ Startup
  \/ Shutdown
  \/ ReloadNoRestart
  \/ ReloadStop
  \/ ReloadStart
  \/ WaitDone

Workers ==
  \/ \E i \in DOMAIN servers : ServerStart(i)
  \/ \E i \in DOMAIN servers : ListenAndServe(i)
  \/ \E i \in DOMAIN cleaners : CleanerTick(i)
  \/ \E i \in DOMAIN cleaners : CleanerSwept(i)
  \/ \E i \in DOMAIN cleaners : CleanerReturn(i)

Next ==
  \/ Main
  \/ Workers
  \/ \E cfg \in Edits(currentConfig) : ConfigChange(cfg)
  \/ Signal

Spec == Init /\ [][Next]_vars

\* Fairness: main and every goroutine keep being scheduled; a select with a
\* closed stopChan ready eventually takes that case.
FairSpec ==
  /\ Init
  /\ [][Next]_vars
  /\ WF_vars(Main)
  /\ \A i \in 1..MaxServers :
       WF_vars(ServerStart(i)) /\ WF_vars(ListenAndServe(i))
  /\ \A i \in 1..MaxCleaners :
       WF_vars(CleanerSwept(i)) /\ SF_vars(CleanerReturn(i))

\* Runs in which the watcher also meets files it has to reject.
WatchNext ==
  \/ Main
  \/ Workers
  \/ \E file \in ConfigFiles(currentConfig) : OnConfigChange(file)
  \/ Signal

WatchSpec == Init /\ [][WatchNext]_vars

\* Runs in which startServices is called again with the active snapshot.
IdemNext ==
  \/ Startup
  \/ StartServicesAgain
  \/ \E i \in DOMAIN servers : ServerStart(i)
  \/ \E i \in DOMAIN servers : ListenAndServe(i)
  \/ \E i \in DOMAIN cleaners : CleanerTick(i)
  \/ \E i \in DOMAIN cleaners : CleanerSwept(i)

\* The idempotence runs start from any valid configuration.
IdemInit ==
  /\ SupInit(ValidConfigs)
  /\ KeyIdle
  /\ CacheIdle
  /\ CmpIdle /\ SweepIdle /\ ProxyIdle /\ TunnelIdle

IdemSpec == IdemInit /\ [][IdemNext]_vars

\* ------------------------------------------------------------------------
\* The control loop with appStateMutex: every Lock and the section that
\* follows it up to the Unlock are steps of their own, and the watcher's
\* callback runs at any moment of the loop.
\* Only main locks the mutex, so the mutex is held exactly while main is
\* between a Lock and its Unlock.
\* pc: "start" (before startServices of line 84), "select", "noRestart"
\* (before the Lock of line 110), "stop" (before stopServices of line 117),
\* "swap" (before the Lock of line 120), "restart" (before startServices of
\* line 124), "shutdown" (before stopServices of line 98), each with
\* ".locked" once the Lock has returned, then "wait" and "exit".
LockPoints == {"start", "noRestart", "stop", "swap", "restart", "shutdown"}

Locked(p) ==
  CASE p = "start" -> "start.locked"
    [] p = "noRestart" -> "noRestart.locked"
    [] p = "stop" -> "stop.locked"
    [] p = "swap" -> "swap.locked"
    [] p = "restart" -> "restart.locked"
    [] p = "shutdown" -> "shutdown.locked"

MutexHeld == pc \in {Locked(p) : p \in LockPoints}

\* appStateMutex.Lock() returns.
MutexLock ==
  /\ pc \in LockPoints
  /\ pc' = Locked(pc)
  /\ UNCHANGED <<currentConfig, activeConfig, newCfg, reloadChan, signalChan,
                 currentHttpServer, currentCleanerStop, serverWg, servers,
                 cleaners, changes, again, rejects>>
  /\ UNCHANGED notSup

\* startServices(activeConfig) of line 84, from after the Lock to the Unlock.
StartupLocked ==
  /\ pc = "start.locked"
  /\ WithinBounds(activeConfig)
  /\ startServices(activeConfig)
  /\ pc' = "select"
  /\ UNCHANGED <<currentConfig, activeConfig, newCfg, reloadChan, signalChan,
                 changes, again, rejects>>
  /\ UNCHANGED notSup

\* case <-reloadChan: GetConfig and compareConfigs, without the mutex.
ReceiveReload ==
  /\ pc = "select"
  /\ reloadChan = 1
  /\ reloadChan' = 0
  /\ newCfg' = currentConfig
  /\ LET r == compareConfigs(activeConfig, currentConfig)
     IN  pc' = IF ~r.restartServer /\ ~r.restartCleaner THEN "noRestart"
               ELSE "stop"
  /\ UNCHANGED <<currentConfig, activeConfig, signalChan, currentHttpServer,
                 currentCleanerStop, serverWg, servers, cleaners, changes,
                 again, rejects>>
  /\ UNCHANGED notSup

\* The swap of the no-restart path with no Lock before it.
NoRestartSwapUnlocked ==
  /\ pc = "noRestart"
  /\ activeConfig' = newCfg
  /\ newCfg' = NoConfig
  /\ pc' = "select"
  /\ UNCHANGED <<currentConfig, reloadChan, signalChan, currentHttpServer,
                 currentCleanerStop, serverWg, servers, cleaners, changes,
                 again, rejects>>
  /\ UNCHANGED notSup

\* Lines 110-113: activeConfig = newCfg, Unlock, continue.
NoRestartSwap ==
  /\ pc = "noRestart.locked"
  /\ activeConfig' = newCfg
  /\ newCfg' = NoConfig
  /\ pc' = "select"
  /\ UNCHANGED <<currentConfig, reloadChan, signalChan, currentHttpServer,
                 currentCleanerStop, serverWg, servers, cleaners, changes,
                 again, rejects>>
  /\ UNCHANGED notSup

\* stopServices(restartServer, restartCleaner) of line 117, from after the
\* Lock to the Unlock.
StopLocked ==
  /\ pc = "stop.locked"
  /\ LET r == compareConfigs(activeConfig, newCfg)
     IN  stopServices(r.restartServer, r.restartCleaner)
  /\ pc' = "swap"
  /\ UNCHANGED <<currentConfig, activeConfig, newCfg, reloadChan, signalChan,
                 changes, again, rejects>>
  /\ UNCHANGED notSup

\* Lines 120-122: activeConfig = newCfg, Unlock.
SwapLocked ==
  /\ pc = "swap.locked"
  /\ activeConfig' = newCfg
  /\ pc' = "restart"
  /\ UNCHANGED <<currentConfig, newCfg, reloadChan, signalChan,
                 currentHttpServer, currentCleanerStop, serverWg, servers,
                 cleaners, changes, again, rejects>>
  /\ UNCHANGED notSup

\* startServices(activeConfig) of line 124, from after the Lock to the Unlock.
RestartLocked ==
  /\ pc = "restart.locked"
  /\ WithinBounds(activeConfig)
  /\ startServices(activeConfig)
  /\ newCfg' = NoConfig
  /\ pc' = "select"
  /\ UNCHANGED <<currentConfig, activeConfig, reloadChan, signalChan, changes,
                 again, rejects>>
  /\ UNCHANGED notSup

\* case sig := <-signalChan
ReceiveSignal ==
  /\ pc = "select"
  /\ signalChan
  /\ signalChan' = FALSE
  /\ pc' = "shutdown"
  /\ UNCHANGED <<currentConfig, activeConfig, newCfg, reloadChan,
                 currentHttpServer, currentCleanerStop, serverWg, servers,
                 cleaners, changes, again, rejects>>
  /\ UNCHANGED notSup

\* stopServices(true, true) of line 98, from after the Lock to the Unlock.
ShutdownLocked ==
  /\ pc = "shutdown.locked"
  /\ stopServices(TRUE, TRUE)
  /\ pc' = "wait"
  /\ UNCHANGED <<currentConfig, activeConfig, newCfg, reloadChan, signalChan,
                 changes, again, rejects>>
  /\ UNCHANGED notSup

\* The callback sending on a channel without a buffer: the notification is
\* dropped unless main is waiting at its select.
ConfigChangeAsyncUnbuffered(cfg) ==
  /\ pc \notin {"shutdown", "shutdown.locked", "wait", "exit"}
  /\ changes < MaxChanges
  /\ changes' = changes + 1
  /\ currentConfig' = cfg
  /\ reloadChan' = IF pc = "select" THEN 1 ELSE reloadChan
  /\ UNCHANGED <<pc, activeConfig, newCfg, signalChan, currentHttpServer,
                 currentCleanerStop, serverWg, servers, cleaners, again,
                 rejects>>
  /\ UNCHANGED notSup

\* The OnConfigChange callback with a valid file, at any moment before main
\* has left its loop.
ConfigChangeAsync(cfg) ==
  /\ pc \notin {"shutdown", "shutdown.locked", "wait", "exit"}
  /\ changes < MaxChanges
  /\ changes' = changes + 1
  /\ currentConfig' = cfg
  /\ reloadChan' = 1
  /\ UNCHANGED <<pc, activeConfig, newCfg, signalChan, currentHttpServer,
                 currentCleanerStop, serverWg, servers, cleaners, again,
                 rejects>>
  /\ UNCHANGED notSup

LockMain ==
  \/ MutexLock
  \/ StartupLocked
  \/ ReceiveReload
  \/ NoRestartSwap
  \/ StopLocked
  \/ SwapLocked
  \/ RestartLocked
  \/ ReceiveSignal
  \/ ShutdownLocked
  \/ WaitDone

LockNext ==
  \/ LockMain
  \/ \E i \in DOMAIN servers : ServerStart(i)
  \/ \E cfg \in Edits(currentConfig) : ConfigChangeAsync(cfg)
  \/ Signal

LockSpec == Init /\ [][LockNext]_vars

\* Fairness: main keeps being scheduled.
LockFairSpec == Init /\ [][LockNext]_vars /\ WF_vars(LockMain)

\* A step wrote the active-topology record.
RecordWritten ==
  \/ activeConfig' # activeConfig
  \/ currentHttpServer' # currentHttpServer
  \/ currentCleanerStop' # currentCleanerStop

\* A step created a server or an evictor, or took one through Stop or its
\* stop handle.
SubsystemStartedOrStopped ==
  \/ Len(servers') # Len(servers)
  \/ Len(cleaners') # Len(cleaners)
  \/ serverWg' # serverWg
  \/ \E i \in DOMAIN servers :
       servers[i].server = "set" /\ servers'[i].server = "nil"
  \/ \E i \in DOMAIN cleaners : cleaners'[i].stopChan # cleaners[i].stopChan

\* C31: the active snapshot, the server handle and the evictor stop handle
\* are written only by main and only between a Lock of appStateMutex and its
\* Unlock; every creation and every stop of a server or an evictor by
\* startServices and stopServices happens in such a section; and a section
\* ends before the next one begins, so no two of them overlap.
C31_RecordUnderMutex ==
  [][/\ RecordWritten => (MutexHeld /\ pc' # pc)
     /\ SubsystemStartedOrStopped => (MutexHeld /\ pc' # pc)
     /\ (MutexHeld /\ pc' # pc) => ~MutexHeld'
     /\ (~MutexHeld /\ MutexHeld') => pc \in LockPoints]_vars

\* main is inside stopServices with the mutex held while the goroutine of
\* the server it is about to stop has not run Server.Start yet and the
\* watcher has delivered a further change.
C31_Witness ==
  /\ pc = "stop.locked"
  /\ MutexHeld
  /\ currentHttpServer = 1
  /\ servers[1].start = "spawned"
  /\ compareConfigs(activeConfig, newCfg).restartServer
  /\ changes = 2
  /\ reloadChan = 1

\* main has left its loop or is about to: a shutdown signal is buffered or
\* being handled.
LoopLeft ==
  signalChan \/ pc \in {"shutdown", "shutdown.locked", "wait", "exit"}

\* The exploration ends here: startServices would create one server or one
\* evictor more than the bounds allow.
BoundReached ==
  pc \in {"start.locked", "restart.locked"} /\ ~WithinBounds(activeConfig)

\* C34: whatever valid changes the watcher delivers, and whichever of its
\* sends are dropped because the channel is full, once the changes have
\* stopped and the control loop keeps running the active snapshot equals
\* the global snapshot from some moment on.
C34_ActiveConverges ==
  <>[](\/ activeConfig = currentConfig /\ reloadChan = 0 /\ pc = "select"
       \/ LoopLeft
       \/ BoundReached)

\* Two changes, of the port and of the forward proxy, were taken by one
\* reload: the second send was dropped, and the one replacement server was
\* built from the snapshot with both, which is the active one.
C34_Witness ==
  /\ pc = "select"
  /\ changes = 2
  /\ reloadChan = 0
  /\ ~signalChan
  /\ activeConfig = currentConfig
  /\ Len(servers) = 2
  /\ currentHttpServer = 2
  /\ servers[2].initialConfig.HTTP = activeConfig.HTTP
  /\ servers[1].initialConfig.HTTP.Port # servers[2].initialConfig.HTTP.Port
  /\ servers[1].initialConfig.HTTP.ForwardProxy.Enabled
       # servers[2].initialConfig.HTTP.ForwardProxy.Enabled

\* The step invokes the stop handle of the started evictor i: its stopChan
\* is closed, or closed a second time (a panic).
HandleInvoked(i) ==
  \/ cleaners'[i].stopChan # cleaners[i].stopChan
  \/ cleaners'[i].panicked # cleaners[i].panicked

\* C38: the stop handle of a started evictor is invoked at most once: the
\* supervisor invokes only the handle it holds, whose stopChan is still
\* open, and no longer holds it when the critical section ends, so no
\* close of a closed channel ever happens.
C38_StopHandleOnce ==
  [][\A i \in DOMAIN cleaners :
       HandleInvoked(i) =>
         /\ MutexHeld
         /\ currentCleanerStop = i
         /\ cleaners[i].stopChan = "open"
         /\ cleaners'[i].stopChan = "closed"
         /\ ~cleaners'[i].panicked
         /\ currentCleanerStop' = NoHandle
         /\ ~MutexHeld']_vars

\* Two evictors were started one after the other; each one's handle was
\* invoked, the first by a reload and the second by the shutdown, and the
\* supervisor holds none.
C38_Witness ==
  /\ pc = "wait"
  /\ Len(cleaners) = 2
  /\ cleaners[1].worker /\ cleaners[1].stopChan = "closed"
  /\ cleaners[2].worker /\ cleaners[2].stopChan = "closed"
  /\ ~cleaners[1].panicked /\ ~cleaners[2].panicked
  /\ currentCleanerStop = NoHandle

\* The servers the supervisor holds: at most the one in currentHttpServer.
HeldServers == IF currentHttpServer = NoHandle THEN 0 ELSE 1

\* C39: the goroutines running Server.Start finish once their server is
\* stopped, so the goroutines that serverWg still counts are never more than
\* the servers the supervisor holds.
C39_UnfinishedWithinHeld == serverWg <= HeldServers

\* ------------------------------------------------------------------------
\* Properties of the supervisor
\* ------------------------------------------------------------------------
\* A listener is alive when it is bound or about to bind: its Start
\* goroutine has been launched, or ListenAndServe is pending on a server
\* that was not shut down, or the listener is bound.
ListenerAlive(i) ==
  \/ servers[i].start = "spawned"
  \/ servers[i].las = "pending" /\ servers[i].srv # "closed"
  \/ servers[i].srv = "listening"

AliveListeners == {i \in DOMAIN servers : ListenerAlive(i)}

\* An evictor worker is alive while it waits for a tick or runs a sweep.
EvictorAlive(i) == cleaners[i].loop \in {"select", "cleanup"}

AliveEvictors == {i \in DOMAIN cleaners : EvictorAlive(i)}

\* C1: in every reachable state at most one HTTP listener is alive (bound or
\* about to bind), also when stopServices runs before the old server's Start
\* goroutine has created its http.Server.
C1_AtMostOneListener == Cardinality(AliveListeners) <= 1

\* C2: in every reachable state at most one evictor worker is alive (waiting
\* for a tick or executing a sweep); an old worker never coexists with the
\* newly started one.
C2_AtMostOneEvictor == Cardinality(AliveEvictors) <= 1

\* C3: after the shutdown signal was received and both subsystems were
\* stopped, serverWg.Wait eventually returns and the process exits.
C3_ShutdownTerminates == (pc = "wait") ~> (pc = "exit")

EvictorSettings(cfg) ==
  <<cfg.HTTP.ForwardProxy.Enabled, cfg.HTTP.ForwardProxy.Cache.Enabled,
    cfg.HTTP.ForwardProxy.Cache.CacheDir, cfg.HTTP.ForwardProxy.Cache.CacheTTL,
    cfg.ProxyCacheCleanup.Interval>>

EvictorUntouched ==
  /\ cleaners' = cleaners
  /\ currentCleanerStop' = currentCleanerStop

ServerUntouched ==
  /\ servers' = servers
  /\ serverWg' = serverWg
  /\ currentHttpServer' = currentHttpServer

\* C5: a reload whose new snapshot differs from the active one only in
\* settings unrelated to the evictor neither invokes the evictor's stop
\* handle nor starts an evictor, and a reload that differs only in the
\* cleanup interval neither stops nor starts the HTTP server. The reload
\* cycle is the step that receives from reloadChan (compare, stop) and the
\* step that swaps the snapshot and starts.
C5_ReloadIsolation ==
  [][/\ (/\ pc = "select" /\ reloadChan = 1 /\ reloadChan' = 0
         /\ EvictorSettings(activeConfig) = EvictorSettings(currentConfig))
          => EvictorUntouched
     /\ (/\ pc = "restart" /\ pc' = "select"
         /\ EvictorSettings(activeConfig) = EvictorSettings(newCfg))
          => EvictorUntouched
     /\ (/\ pc = "select" /\ reloadChan = 1 /\ reloadChan' = 0
         /\ activeConfig.HTTP = currentConfig.HTTP)
          => ServerUntouched
     /\ (/\ pc = "restart" /\ pc' = "select"
         /\ activeConfig.HTTP = newCfg.HTTP)
          => ServerUntouched]_vars

\* A port-only reload replaced the server while the one evictor kept
\* running, and an interval-only reload replaced the evictor while the one
\* server kept its handle.
C5_Witness ==
  /\ pc = "select"
  /\ changes = 2
  /\ Len(servers) = 2
  /\ Len(cleaners) = 2
  /\ servers[1].initialConfig.HTTP.Port # servers[2].initialConfig.HTTP.Port
  /\ [servers[1].initialConfig.HTTP EXCEPT !.Port = 0]
       = [servers[2].initialConfig.HTTP EXCEPT !.Port = 0]
  /\ cleaners[1].interval # cleaners[2].interval
  /\ currentHttpServer = 2
  /\ currentCleanerStop = 2

\* C6: after startup and after every completed reload cycle (main is back
\* at its select) a server handle is held iff HTTP is enabled in the active
\* snapshot, an evictor stop handle is held iff the evictor should run, and
\* the held server and evictor were built from the HTTP subtree, interval,
\* directory and TTL of the active snapshot.
C6_RecordMatchesSnapshot ==
  pc = "select" =>
    /\ (currentHttpServer # NoHandle) <=> activeConfig.HTTP.Enabled
    /\ (currentCleanerStop # NoHandle) <=> ShouldRunCleaner(activeConfig)
    /\ currentHttpServer # NoHandle =>
         servers[currentHttpServer].initialConfig.HTTP = activeConfig.HTTP
    /\ currentCleanerStop # NoHandle =>
         /\ cleaners[currentCleanerStop].interval
              = GetInterval(activeConfig.ProxyCacheCleanup)
         /\ cleaners[currentCleanerStop].cacheDir
              = activeConfig.HTTP.ForwardProxy.Cache.CacheDir
         /\ cleaners[currentCleanerStop].cacheTTL
              = GetCacheTTL(activeConfig.HTTP.ForwardProxy.Cache)

C6_Witness ==
  /\ pc = "select"
  /\ changes >= 1
  /\ currentHttpServer = 2
  /\ currentCleanerStop = 2
  /\ servers[1].initialConfig.HTTP.ForwardProxy.Cache.CacheTTL
       # servers[2].initialConfig.HTTP.ForwardProxy.Cache.CacheTTL

\* The flags main gets for a new snapshot n.
ReloadFlags(n) == compareConfigs(activeConfig, n)

\* C22: a reload notification for which neither restart flag is set replaces
\* the active snapshot by the new one and leaves the server handle, the
\* evictor stop handle and every server and evictor as they were: no Stop,
\* no stop-handle invocation, no NewServer, no StartCleaner.
C22_NoRestartReloadOnlySwaps ==
  [][(/\ pc = "select" /\ reloadChan = 1 /\ reloadChan' = 0
      /\ ~ReloadFlags(currentConfig).restartServer
      /\ ~ReloadFlags(currentConfig).restartCleaner)
       => /\ activeConfig' = currentConfig
          /\ pc' = "select"
          /\ ServerUntouched
          /\ EvictorUntouched]_vars

\* A reload that changed the interval only, with the forward proxy off, was
\* taken without a restart while the one server was listening.
C22_Witness ==
  /\ pc = "select"
  /\ changes = 1
  /\ reloadChan = 0
  /\ activeConfig = currentConfig
  /\ activeConfig.ProxyCacheCleanup.Interval = "2h"
  /\ ~ShouldRunCleaner(activeConfig)
  /\ Len(servers) = 1
  /\ currentHttpServer = 1
  /\ servers[1].srv = "listening"
  /\ Len(cleaners) = 0

\* Server i went through Stop in this step, and evictor i through its stop
\* handle.
ServerStopped(i) ==
  /\ servers'[i].server = "nil"
  /\ servers[i].server = "set" => servers'[i].srv = "closed"
  /\ servers'[i].start = servers[i].start
  /\ servers'[i].las = servers[i].las

EvictorStopped(i) ==
  /\ cleaners[i].worker => cleaners'[i].stopChan = "closed"
  /\ cleaners'[i].loop = cleaners[i].loop

\* C23: a reload with a restart flag set first stops exactly the flagged
\* subsystems (the active snapshot being still the old one and nothing
\* being started), then replaces the active snapshot and starts; a
\* subsystem that was not flagged is neither stopped nor started in the
\* cycle, nothing is stopped by the starting step, and a subsystem is
\* started only when its handle was cleared by the stop that came before.
C23_StopSwapStart ==
  [][/\ (/\ pc = "select" /\ reloadChan = 1 /\ reloadChan' = 0
         /\ \/ ReloadFlags(currentConfig).restartServer
            \/ ReloadFlags(currentConfig).restartCleaner)
          => /\ pc' = "restart"
             /\ activeConfig' = activeConfig
             /\ Len(servers') = Len(servers)
             /\ Len(cleaners') = Len(cleaners)
             /\ serverWg' = serverWg
             /\ IF ReloadFlags(currentConfig).restartServer
                  THEN /\ currentHttpServer' = NoHandle
                       /\ \A i \in DOMAIN servers :
                            IF i = currentHttpServer
                              THEN ServerStopped(i)
                              ELSE servers'[i] = servers[i]
                  ELSE ServerUntouched
             /\ IF ReloadFlags(currentConfig).restartCleaner
                  THEN /\ currentCleanerStop' = NoHandle
                       /\ \A i \in DOMAIN cleaners :
                            IF i = currentCleanerStop
                              THEN EvictorStopped(i)
                              ELSE cleaners'[i] = cleaners[i]
                  ELSE EvictorUntouched
     /\ (pc = "restart" /\ pc' = "select")
          => /\ activeConfig' = newCfg
             /\ ~ReloadFlags(newCfg).restartServer => ServerUntouched
             /\ ~ReloadFlags(newCfg).restartCleaner => EvictorUntouched
             /\ SubSeq(servers', 1, Len(servers)) = servers
             /\ SubSeq(cleaners', 1, Len(cleaners)) = cleaners
             /\ Len(servers') > Len(servers)
                  => /\ currentHttpServer = NoHandle
                     /\ Len(servers') = Len(servers) + 1
                     /\ currentHttpServer' = Len(servers')
                     /\ servers'[Len(servers')].initialConfig.HTTP
                          = newCfg.HTTP
             /\ Len(cleaners') > Len(cleaners)
                  => /\ currentCleanerStop = NoHandle
                     /\ Len(cleaners') = Len(cleaners) + 1
                     /\ currentCleanerStop' = Len(cleaners')
                     /\ cleaners'[Len(cleaners')].cacheTTL
                          = GetCacheTTL(newCfg.HTTP.ForwardProxy.Cache)]_vars

\* A reload that changed the port only has completed: the first server was
\* shut down and replaced, and the one evictor kept running.
C23_Witness ==
  /\ pc = "select"
  /\ changes = 1
  /\ Len(servers) = 2
  /\ servers[1].srv = "closed"
  /\ servers[1].initialConfig.HTTP.Port # servers[2].initialConfig.HTTP.Port
  /\ currentHttpServer = 2
  /\ Len(cleaners) = 1
  /\ currentCleanerStop = 1
  /\ cleaners[1].stopChan = "open"
  /\ cleaners[1].loop = "select"

\* C24: a change of the configuration file to a content that cannot be read,
\* cannot be decoded or fails validation leaves the global snapshot as it
\* was, sends no notification and touches neither the active snapshot nor
\* any server or evictor; the global and the active snapshot are valid ones
\* at all times.
C24_InvalidReloadRejected ==
  [][/\ rejects' # rejects
          => /\ currentConfig' = currentConfig
             /\ reloadChan' = reloadChan
             /\ activeConfig' = activeConfig
             /\ pc' = pc
             /\ ServerUntouched
             /\ EvictorUntouched
     /\ validateConfig(currentConfig') /\ currentConfig' \in Config
     /\ validateConfig(activeConfig') /\ activeConfig' \in Config]_vars

\* A file was rejected while a server was listening and an evictor waiting,
\* and no notification is pending.
C24_Witness ==
  /\ rejects = 1
  /\ changes = 1
  /\ pc = "select"
  /\ reloadChan = 0
  /\ activeConfig = currentConfig
  /\ currentHttpServer = 1
  /\ servers[1].srv = "listening"
  /\ currentCleanerStop = 1
  /\ cleaners[1].loop = "select"

\* Arguments StartCleaner may be called with.
CleanerIntervals == {-1, 0, 1, 2}
CleanerDirs == {"", "cache"}
CleanerTTLs == {-1, 0, 24}

\* What StartCleaner returns for every interval, directory and TTL.
StartCleanerRule ==
  \A i \in CleanerIntervals, d \in CleanerDirs, t \in CleanerTTLs :
    LET c == StartCleaner(i, d, t)
    IN  /\ c.worker <=> (i > 0 /\ d # "" /\ t > 0)
        /\ c.worker => c.loop = "select"
        /\ ~c.worker => c.loop = "none" /\ stopFunc(c) = c
        /\ ~stopFunc(c).panicked

\* C25: StartCleaner starts a worker exactly when the interval is positive,
\* the directory non-empty and the TTL positive; otherwise there is no
\* worker and the handle does nothing.  No handle the supervisor invokes
\* panics (each is invoked at most once, then dropped), and a handle
\* without a worker is held like one with a worker.
C25_StartCleanerWorkerIffValid ==
  /\ StartCleanerRule
  /\ \A i \in DOMAIN cleaners :
       /\ ~cleaners[i].panicked
       /\ cleaners[i].worker <=>
            /\ cleaners[i].interval > 0
            /\ cleaners[i].cacheDir # ""
            /\ cleaners[i].cacheTTL > 0
       /\ ~cleaners[i].worker =>
            cleaners[i].loop = "none" /\ cleaners[i].stopChan = "open"
       /\ cleaners[i].stopChan = "closed" => currentCleanerStop # i
  /\ (pc = "select" /\ ShouldRunCleaner(activeConfig))
       => currentCleanerStop # NoHandle

\* A handle without a worker (TTL 0) was held, invoked and replaced by one
\* with a worker, and that one was invoked in its turn.
C25_Witness ==
  /\ Len(cleaners) = 2
  /\ ~cleaners[1].worker
  /\ cleaners[2].worker
  /\ cleaners[2].stopChan = "closed"
  /\ currentCleanerStop = NoHandle

\* C26: once the stop handle of an evictor has been invoked (its stopChan is
\* closed) its worker begins no new sweep, even when a tick is pending; a
\* sweep that is executing completes and the worker then returns.
C26_NoSweepAfterStop ==
  [][\A i \in DOMAIN cleaners :
       cleaners[i].stopChan = "closed" =>
         /\ ~(cleaners[i].loop = "select" /\ cleaners'[i].loop = "cleanup")
         /\ cleaners[i].loop = "cleanup" =>
              cleaners'[i].loop \in {"cleanup", "select"}]_vars

\* ---------------------------------------------------------------------------
\* Server.Stop on a server that has been started (pkg/httpserver/server.go,
\* Stop, with http.Server.Shutdown as the standard library runs it).
\* On top of the fields above a server carries
\* conns    : connections with a request in flight, which Shutdown tracks
\* hijacked : connections a CONNECT handler took over; Shutdown does not
\*            track them
\* stop     : the call of Stop: "none", "shutdown" (inside Shutdown),
\*            "returned"
\* result   : what the last call of Stop returned: "none", "nil", "error"
\* waited   : seconds the call has spent inside Shutdown

MaxConns == 2        \* connections of one server at a time

GracePeriod == 15    \* context.WithTimeout(..., 15*time.Second)

StartedServer(cfg) ==
  [initialConfig |-> [HTTP |-> cfg.HTTP], server |-> "set",
   start |-> "blocked", srv |-> "new", las |-> "pending", conns |-> 0,
   hijacked |-> 0, stop |-> "none", result |-> "none", waited |-> 0]

\* The listener accepts a connection and its request goes to the handler.
AcceptConn(i) ==
  /\ servers[i].srv = "listening"
  /\ servers[i].conns + servers[i].hijacked < MaxConns
  /\ servers' = [servers EXCEPT ![i].conns = @ + 1]
  /\ UNCHANGED cleaners
  /\ supFrame

\* The handler returns and the response is written; with Shutdown under way
\* the connection is closed instead of being kept alive.
RequestDone(i) ==
  /\ servers[i].conns > 0
  /\ servers' = [servers EXCEPT ![i].conns = @ - 1]
  /\ UNCHANGED cleaners
  /\ supFrame

\* HandleConnect hijacks the connection: the server forgets it.
HijackConn(i) ==
  /\ servers[i].conns > 0
  /\ servers' = [servers EXCEPT ![i].conns = @ - 1, ![i].hijacked = @ + 1]
  /\ UNCHANGED cleaners
  /\ supFrame

\* Both directions of a tunnel have ended.
TunnelClosed(i) ==
  /\ servers[i].hijacked > 0
  /\ servers' = [servers EXCEPT ![i].hijacked = @ - 1]
  /\ UNCHANGED cleaners
  /\ supFrame

\* Stop is called: with s.server nil it returns nil at once; otherwise it
\* enters Shutdown, which closes the listener.
StopEnter(i) ==
  /\ servers[i].stop # "shutdown"
  /\ servers' = [servers EXCEPT ![i] =
                   IF @.server = "nil"
                     THEN [@ EXCEPT !.stop = "returned", !.result = "nil"]
                     ELSE [@ EXCEPT !.stop = "shutdown", !.srv = "closed",
                                    !.waited = 0]]
  /\ UNCHANGED cleaners
  /\ supFrame

\* Shutdown polls and finds a request in flight: it waits on.
ShutdownWait(i) ==
  /\ servers[i].stop = "shutdown"
  /\ servers[i].conns > 0
  /\ servers[i].waited < GracePeriod
  /\ servers' = [servers EXCEPT ![i].waited = @ + 1]
  /\ UNCHANGED cleaners
  /\ supFrame

\* Shutdown polls and finds no tracked connection with a request in flight:
\* it returns nil, Stop clears s.server and returns nil.
ShutdownDrained(i) ==
  /\ servers[i].stop = "shutdown"
  /\ servers[i].conns = 0
  /\ servers' = [servers EXCEPT ![i] =
                   [@ EXCEPT !.stop = "returned", !.result = "nil",
                             !.server = "nil"]]
  /\ UNCHANGED cleaners
  /\ supFrame

\* The context of Shutdown expires with a request in flight: Shutdown returns
\* the context's error and leaves the connections as they are; Stop clears
\* s.server and returns the error.
ShutdownTimeout(i) ==
  /\ servers[i].stop = "shutdown"
  /\ servers[i].conns > 0
  /\ servers[i].waited = GracePeriod
  /\ servers' = [servers EXCEPT ![i] =
                   [@ EXCEPT !.stop = "returned", !.result = "error",
                             !.server = "nil"]]
  /\ UNCHANGED cleaners
  /\ supFrame

ShutdownInit ==
  /\ pc = "idle"
  /\ currentConfig = NoConfig /\ activeConfig = NoConfig /\ newCfg = NoConfig
  /\ reloadChan = 0 /\ signalChan = FALSE
  /\ currentHttpServer = NoHandle /\ currentCleanerStop = NoHandle
  /\ serverWg = 0
  /\ \E cfg \in InitialConfigs : servers = <<StartedServer(cfg)>>
  /\ cleaners = <<>>
  /\ changes = 0 /\ again = 0 /\ rejects = 0
  /\ KeyIdle /\ CacheIdle
  /\ CmpIdle /\ SweepIdle /\ ProxyIdle /\ TunnelIdle

ShutdownNext ==
  \/ \E i \in DOMAIN servers : ListenAndServe(i)
  \/ \E i \in DOMAIN servers : AcceptConn(i)
  \/ \E i \in DOMAIN servers : RequestDone(i)
  \/ \E i \in DOMAIN servers : HijackConn(i)
  \/ \E i \in DOMAIN servers : TunnelClosed(i)
  \/ \E i \in DOMAIN servers : StopEnter(i)
  \/ \E i \in DOMAIN servers : ShutdownWait(i)
  \/ \E i \in DOMAIN servers : ShutdownDrained(i)
  \/ \E i \in DOMAIN servers : ShutdownTimeout(i)

ShutdownSpec == ShutdownInit /\ [][ShutdownNext]_vars

\* C30: once Stop has returned, with an error or without one, no request of
\* the server is still being served and its listener is closed.
C30_StoppedServesNothing ==
  \A i \in DOMAIN servers :
    ("stop" \in DOMAIN servers[i] /\ servers[i].stop = "returned") =>
      /\ servers[i].conns = 0
      /\ servers[i].srv # "listening"

\* ---------------------------------------------------------------------------
\* Cache keys (pkg/forwardproxy/cache.go, generateCacheKey).
\* A string is a sequence of one-character strings.  A URL carries its query
\* as the sequence of name=value pairs in the order in which they appear in
\* the request, each pair already unescaped, which is what u.Query() parses.

MaxParams == 2       \* query parameters per request in the ordering family
MaxPathLen == 2      \* characters per path in the injectivity family

\* ASCII code of the characters the requests below are written with.
Ord(c) ==
  CASE c = "%" -> 37 [] c = "&" -> 38 [] c = "." -> 46 [] c = "/" -> 47
    [] c = "1" -> 49
    [] c = "2" -> 50 [] c = "3" -> 51 [] c = "6" -> 54 [] c = "8" -> 56
    [] c = ":" -> 58 [] c = "=" -> 61 [] c = "?" -> 63 [] c = "A" -> 65
    [] c = "D" -> 68 [] c = "E" -> 69 [] c = "F" -> 70 [] c = "G" -> 71
    [] c = "H" -> 72 [] c = "P" -> 80 [] c = "S" -> 83 [] c = "T" -> 84
    [] c = "U" -> 85 [] c = "a" -> 97 [] c = "b" -> 98 [] c = "e" -> 101
    [] c = "g" -> 103 [] c = "h" -> 104 [] c = "p" -> 112 [] c = "s" -> 115
    [] c = "t" -> 116 [] c = "u" -> 117

Chr(n) ==
  CHOOSE c \in {"%", "&", ".", "/", "1", "2", "3", "6", "8", ":", "=", "?", "A",
                "D", "E", "F", "G", "H", "P", "S", "T", "U", "a", "b", "e",
                "g", "h", "p", "s", "t", "u"} : Ord(c) = n

IsLower(c) == Ord(c) >= 97 /\ Ord(c) <= 122
IsUpper(c) == Ord(c) >= 65 /\ Ord(c) <= 90

ToUpper(s) == [i \in 1..Len(s) |-> IF IsLower(s[i]) THEN Chr(Ord(s[i]) - 32) ELSE s[i]]
ToLower(s) == [i \in 1..Len(s) |-> IF IsUpper(s[i]) THEN Chr(Ord(s[i]) + 32) ELSE s[i]]

\* Byte-wise string order, the order sort.Strings gives the keys in Encode.
RECURSIVE StrLess(_, _)
StrLess(s, t) ==
  IF t = <<>> THEN FALSE
  ELSE IF s = <<>> THEN TRUE
  ELSE IF Ord(Head(s)) # Ord(Head(t)) THEN Ord(Head(s)) < Ord(Head(t))
  ELSE StrLess(Tail(s), Tail(t))

RECURSIVE SortKeys(_)
SortKeys(S) ==
  IF S = {} THEN <<>>
  ELSE LET m == CHOOSE x \in S : \A y \in S \ {x} : StrLess(x, y)
       IN  <<m>> \o SortKeys(S \ {m})

\* u.Query(): url.Values, a map from each name to its values in the order
\* in which they appear.
ValuesOf(raw, k) ==
  LET own == SelectSeq(raw, LAMBDA p : p[1] = k)
  IN  [i \in 1..Len(own) |-> own[i][2]]

Query(u) == [k \in {u.RawQuery[i][1] : i \in DOMAIN u.RawQuery} |-> ValuesOf(u.RawQuery, k)]

\* url.QueryEscape: letters, digits and - _ . ~ stay, everything else
\* becomes %XX.
ShouldEscape(c) == ~(IsLower(c) \/ IsUpper(c) \/ (Ord(c) >= 48 /\ Ord(c) <= 57))

EscapeChar(c) ==
  CASE c = "%" -> <<"%", "2", "5">>
    [] c = "&" -> <<"%", "2", "6">>
    [] c = "/" -> <<"%", "2", "F">>
    [] c = ":" -> <<"%", "3", "A">>
    [] c = "=" -> <<"%", "3", "D">>
    [] c = "?" -> <<"%", "3", "F">>

RECURSIVE Concat(_)
Concat(ss) == IF ss = <<>> THEN <<>> ELSE Head(ss) \o Concat(Tail(ss))

QueryEscapeRaw(s) ==
  Concat([i \in 1..Len(s) |-> <<s[i]>>])
QueryEscape(s) ==
  Concat([i \in 1..Len(s) |-> IF ShouldEscape(s[i]) THEN EscapeChar(s[i]) ELSE <<s[i]>>])

\* The name=value pairs of v, names in the given order, the values of one
\* name in the order v holds them.
RECURSIVE PairsInOrder(_, _)
PairsInOrder(v, keys) ==
  IF keys = <<>> THEN <<>>
  ELSE [i \in 1..Len(v[Head(keys)]) |-> <<Head(keys), v[Head(keys)][i]>>]
       \o PairsInOrder(v, Tail(keys))

JoinPairs(ps) ==
  Concat([i \in 1..Len(ps) |->
            (IF i > 1 THEN <<"&">> ELSE <<>>)
            \o QueryEscape(ps[i][1]) \o <<"=">> \o QueryEscape(ps[i][2])])

\* url.Values.Encode(): "sorted by key".
Encode(v) == JoinPairs(PairsInOrder(v, SortKeys(DOMAIN v)))

\* fmt.Sprintf("%s:%s://%s%s?%s", ...)
KeyDataNoUpper(method, u) ==
  method \o <<":">> \o ToLower(u.Scheme) \o <<":", "/", "/">>
    \o ToLower(u.Host) \o u.Path \o <<"?">> \o Encode(Query(u))
KeyData(method, u) ==
  ToUpper(method) \o <<":">> \o ToLower(u.Scheme) \o <<":", "/", "/">>
    \o ToLower(u.Host) \o u.Path \o <<"?">> \o Encode(Query(u))

\* SHA-256 followed by base64: the digest of d, taken as free of collisions.
Sha256Base64(d) == <<"sha256", d>>

generateCacheKey(method, u) == <<Sha256Base64(KeyData(method, u)), ".cache">>

SeqsUpTo(S, n) == UNION {[1..k -> S] : k \in 0..n}

\* Requests that differ in the order of their parameters, in letter case,
\* in headers and in body.
OrderQueries ==
  SeqsUpTo({<<<<"a">>, <<"1">>>>, <<<<"a">>, <<"2">>>>, <<<<"b">>, <<"1">>>>}, MaxParams)

CanonReqs ==
  [Method : {<<"G", "E", "T">>},
   URL : [Scheme : {<<"h", "t", "t", "p">>}, Host : {<<"a">>},
          Path : {<<"/", "p">>}, RawQuery : OrderQueries],
   Header : {"h1"}, Body : {""}]

OrderReqs ==
  [Method : {<<"G", "E", "T">>, <<"g", "e", "t">>},
   URL : [Scheme : {<<"h", "t", "t", "p">>, <<"H", "T", "T", "P">>},
          Host : {<<"a">>, <<"A">>},
          Path : {<<"/", "p">>}, RawQuery : OrderQueries],
   Header : {"h1", "h2"}, Body : {"", "x"}]

\* Requests whose paths and parameters hold the separators of the key.
InjectPaths ==
  {p \in SeqsUpTo({"/", "?", "a"}, MaxPathLen) : p = <<>> \/ p[1] = "/"}

InjectQueries ==
  {<<>>} \cup {<<<<n, v>>>> : n \in {<<>>, <<"?">>, <<"a">>}, v \in {<<>>, <<"a">>}}

InjectCanonReqs ==
  [Method : {<<"G", "E", "T">>},
   URL : [Scheme : {<<"h", "t", "t", "p">>}, Host : {<<"a">>},
          Path : InjectPaths, RawQuery : InjectQueries],
   Header : {"h1"}, Body : {""}]

InjectReqs ==
  [Method : {<<"G", "E", "T">>, <<"P", "U", "T">>},
   URL : [Scheme : {<<"h", "t", "t", "p">>, <<"h", "t", "t", "p", "s">>},
          Host : {<<"a">>, <<"a", ":", "8">>},
          Path : InjectPaths, RawQuery : InjectQueries],
   Header : {"h1"}, Body : {""}]

\* The supervisor is not running while keys are computed.
SupIdle ==
  /\ pc = "idle"
  /\ currentConfig = NoConfig /\ activeConfig = NoConfig /\ newCfg = NoConfig
  /\ reloadChan = 0 /\ signalChan = FALSE
  /\ currentHttpServer = NoHandle /\ currentCleanerStop = NoHandle
  /\ serverWg = 0
  /\ servers = <<>> /\ cleaners = <<>>
  /\ changes = 0 /\ again = 0 /\ rejects = 0

KeyInit ==
  /\ SupIdle
  /\ \E pr \in (CanonReqs \X OrderReqs) \cup (InjectCanonReqs \X InjectReqs) :
       reqA = pr[1] /\ reqB = pr[2]
  /\ keyA = NoKey /\ keyB = NoKey
  /\ CacheIdle
  /\ CmpIdle /\ SweepIdle /\ ProxyIdle /\ TunnelIdle

GenerateKeys ==
  /\ keyA = NoKey
  /\ keyA' = generateCacheKey(reqA.Method, reqA.URL)
  /\ keyB' = generateCacheKey(reqB.Method, reqB.URL)
  /\ UNCHANGED <<reqA, reqB, notKey>>

KeyNext == GenerateKeys

KeySpec == KeyInit /\ [][KeyNext]_vars

\* The fields the key is built from, each normalised as the key normalises it.
Fields(r) ==
  <<ToUpper(r.Method), ToLower(r.URL.Scheme), ToLower(r.URL.Host), r.URL.Path,
    Encode(Query(r.URL))>>

SameEndpoint(r1, r2) ==
  /\ ToUpper(r1.Method) = ToUpper(r2.Method)
  /\ ToLower(r1.URL.Scheme) = ToLower(r2.URL.Scheme)
  /\ ToLower(r1.URL.Host) = ToLower(r2.URL.Host)
  /\ r1.URL.Path = r2.URL.Path

Count(q, p) == Cardinality({i \in DOMAIN q : q[i] = p})

SameMultiset(q1, q2) ==
  \A p \in {q1[i] : i \in DOMAIN q1} \cup {q2[i] : i \in DOMAIN q2} :
    Count(q1, p) = Count(q2, p)

\* C8 (as stated): two requests with the same method, scheme and host up to
\* letter case, the same path and the same multiset of query parameters get
\* the same key, whatever the order of the parameters (two values of one
\* name in different orders included), the headers and the body.
C8_SameKeyAnyOrder ==
  (keyA # NoKey /\ SameEndpoint(reqA, reqB)
     /\ SameMultiset(reqA.URL.RawQuery, reqB.URL.RawQuery))
    => keyA = keyB

\* C8 (amended): two requests with the same method, scheme and host up to
\* letter case, the same path, and for every parameter name the same values
\* in the same relative order get the same key, whatever the order in which
\* differently named parameters appear, the headers and the body.
C8_SameKeyKeepingValueOrder ==
  (keyA # NoKey /\ SameEndpoint(reqA, reqB) /\ Query(reqA.URL) = Query(reqB.URL))
    => keyA = keyB

C8_Witness ==
  /\ keyA # NoKey
  /\ reqA.URL.RawQuery = << <<<<"a">>, <<"1">>>>, <<<<"b">>, <<"1">>>> >>
  /\ reqB.URL.RawQuery = << <<<<"b">>, <<"1">>>>, <<<<"a">>, <<"1">>>> >>
  /\ reqB.Method = <<"g", "e", "t">>
  /\ reqB.URL.Scheme = <<"H", "T", "T", "P">>
  /\ reqB.URL.Host = <<"A">>
  /\ reqB.Header # reqA.Header /\ reqB.Body # reqA.Body
  /\ keyA = keyB

\* C9: two requests that differ in uppercased method, lowercased scheme,
\* lowercased host, path or sorted and escaped query are hashed from
\* different strings, and so get different keys.
C9_KeyDataInjective ==
  (keyA # NoKey /\ Fields(reqA) # Fields(reqB))
    => /\ KeyData(reqA.Method, reqA.URL) # KeyData(reqB.Method, reqB.URL)
       /\ keyA # keyB

C9_Witness ==
  /\ keyA # NoKey
  /\ SameEndpoint(reqA, [reqB EXCEPT !.URL.Path = reqA.URL.Path])
  /\ reqA.URL.Path = <<"/", "?">>
  /\ reqA.URL.RawQuery = << <<<<>>, <<>>>> >>
  /\ reqB.URL.Path = <<"/">>
  /\ reqB.URL.RawQuery = << <<<<"?">>, <<>>>> >>
  /\ keyA # keyB

\* ---------------------------------------------------------------------------
\* The response cache (pkg/forwardproxy/cache.go), one request at a time.
\* Every file-system call of a request may fail; which ones do is an input
\* of the request, as is the answer of the origin.

MaxTime == 2         \* the clock runs from 0 to MaxTime

\* The TTL a handler is built with, in clock units: none, or one unit.
CacheTTLs == {0, 1}

NoBody == ""
Bodies == {"b1", "b2"}
Statuses == {199, 200, 299, 300}

\* What a write that fails half-way leaves in the file: the first byte.
Partial(data) == "b"

\* The file-system calls that fail in one request.  A call that the request
\* cannot reach given the earlier failures is left at no failure: no read
\* after a failed stat, no write after a failed mkdir.
Faults ==
  {f \in [stat : BOOLEAN, read : BOOLEAN, remove : BOOLEAN, mkdir : BOOLEAN,
          write : {"ok", "open", "short"}] :
     /\ f.stat => ~f.read
     /\ f.mkdir => f.write = "ok"}

\* fetchOrigin: an error, or a response with a status and a body.
Origins ==
  {[err |-> TRUE, status |-> 0, body |-> NoBody]}
    \cup [err : {FALSE}, status : {200}, body : Bodies]
    \cup [err : {FALSE}, status : Statuses \ {200}, body : {"b1"}]

\* Two requests for one resource: they differ in letter case and in the
\* order of their parameters.
CacheReqs ==
  {r \in OrderReqs :
     /\ r.Header = "h1" /\ r.Body = ""
     /\ \/ /\ r.Method = <<"G", "E", "T">> /\ r.URL.Scheme = <<"h", "t", "t", "p">>
           /\ r.URL.Host = <<"a">>
           /\ r.URL.RawQuery = << <<<<"a">>, <<"1">>>>, <<<<"b">>, <<"1">>>> >>
        \/ /\ r.Method = <<"g", "e", "t">> /\ r.URL.Scheme = <<"H", "T", "T", "P">>
           /\ r.URL.Host = <<"A">>
           /\ r.URL.RawQuery = << <<<<"b">>, <<"1">>>>, <<<<"a">>, <<"1">>>> >>}

\* Each request with its key, computed once.
\* The requests of CacheReqs for other hosts: the same host with a port, a
\* longer name that starts with it, and a name below it.
HostVariants(host) ==
  {host, host \o <<":", "8", "1">>, host \o <<"b">>,
   host \o <<"b", ":", "8", "1">>, <<"b", ".">> \o host}

VariantReqs ==
  UNION {{[r EXCEPT !.URL.Host = v] : v \in HostVariants(r.URL.Host)} :
           r \in CacheReqs}

KeyOf ==
  {<<<<r.Method, r.URL>>, generateCacheKey(r.Method, r.URL)>> :
     r \in CacheReqs \cup VariantReqs}

\* filepath.Join(h.cacheDir, cacheKey)
CachePath(dir, r) ==
  <<dir, (CHOOSE e \in KeyOf : e[1] = <<r.Method, r.URL>>)[2]>>

NewCacheHandler(cacheDir, cacheTTL) ==
  [cacheDir |-> cacheDir, cacheTTL |-> IF cacheTTL < 0 THEN 0 ELSE cacheTTL]

\* os.Remove(path), which fails when failing is set.
Remove(fs, path, failing) ==
  IF failing THEN fs ELSE [fs EXCEPT ![path] = NoFile]

serveFromCacheFileEager(fs, path, t, ttl, f) ==
  IF f.stat THEN [found |-> FALSE, body |-> NoBody, err |-> TRUE, fs |-> fs]
  ELSE IF fs[path] = NoFile
    THEN [found |-> FALSE, body |-> NoBody, err |-> FALSE, fs |-> fs]
  ELSE IF t - fs[path].modTime >= ttl
    THEN [found |-> FALSE, body |-> NoBody, err |-> FALSE,
          fs |-> Remove(fs, path, f.remove)]
  ELSE IF f.read
    THEN [found |-> FALSE, body |-> NoBody, err |-> FALSE,
          fs |-> Remove(fs, path, f.remove)]
  ELSE [found |-> TRUE, body |-> fs[path].body, err |-> FALSE, fs |-> fs]
serveFromCacheFile(fs, path, t, ttl, f) ==
  IF f.stat THEN [found |-> FALSE, body |-> NoBody, err |-> TRUE, fs |-> fs]
  ELSE IF fs[path] = NoFile
    THEN [found |-> FALSE, body |-> NoBody, err |-> FALSE, fs |-> fs]
  ELSE IF t - fs[path].modTime > ttl
    THEN [found |-> FALSE, body |-> NoBody, err |-> FALSE,
          fs |-> Remove(fs, path, f.remove)]
  ELSE IF f.read
    THEN [found |-> FALSE, body |-> NoBody, err |-> FALSE,
          fs |-> Remove(fs, path, f.remove)]
  ELSE [found |-> TRUE, body |-> fs[path].body, err |-> FALSE, fs |-> fs]

saveToCache(fs, path, data, t, f) ==
  IF f.mkdir THEN fs
  ELSE IF f.write = "open" THEN Remove(fs, path, f.remove)
  ELSE IF f.write = "short"
    THEN Remove([fs EXCEPT ![path] = [modTime |-> t, body |-> Partial(data)]],
                path, f.remove)
  ELSE [fs EXCEPT ![path] = [modTime |-> t, body |-> data]]

\* The result is the four values the function returns, the directory it
\* leaves behind, whether it called fetchOrigin, and what serveFromCacheFile
\* reported (NoCall when it was not called).
ServeFromCacheOrFetchRefetch(h, fs, r, t, o, f) ==
  IF h.cacheTTL <= 0 \/ h.cacheDir = ""
    THEN [status |-> o.status, body |-> o.body, hit |-> FALSE, err |-> o.err,
          fs |-> fs, fetched |-> TRUE, cache |-> NoCall]
  ELSE
    LET path == CachePath(h.cacheDir, r)
        c == serveFromCacheFile(fs, path, t, h.cacheTTL, f)
    IN  IF o.err
          THEN [status |-> 0, body |-> NoBody, hit |-> FALSE, err |-> TRUE,
                fs |-> c.fs, fetched |-> TRUE, cache |-> c]
        ELSE IF o.status >= 200 /\ o.status < 300
          THEN [status |-> o.status, body |-> o.body, hit |-> FALSE,
                err |-> FALSE, fs |-> saveToCache(c.fs, path, o.body, t, f),
                fetched |-> TRUE, cache |-> c]
        ELSE [status |-> o.status, body |-> o.body, hit |-> FALSE,
              err |-> FALSE, fs |-> c.fs, fetched |-> TRUE, cache |-> c]
\* ServeFromCacheOrFetch saving the body whatever the status.
ServeFromCacheOrFetchCacheAll(h, fs, r, t, o, f) ==
  IF h.cacheTTL <= 0 \/ h.cacheDir = ""
    THEN [status |-> o.status, body |-> o.body, hit |-> FALSE, err |-> o.err,
          fs |-> fs, fetched |-> TRUE, cache |-> NoCall]
  ELSE
    LET path == CachePath(h.cacheDir, r)
        c == serveFromCacheFile(fs, path, t, h.cacheTTL, f)
    IN  IF c.found
          THEN [status |-> 200, body |-> c.body, hit |-> TRUE, err |-> FALSE,
                fs |-> c.fs, fetched |-> FALSE, cache |-> c]
        ELSE IF o.err
          THEN [status |-> 0, body |-> NoBody, hit |-> FALSE, err |-> TRUE,
                fs |-> c.fs, fetched |-> TRUE, cache |-> c]
        ELSE [status |-> o.status, body |-> o.body, hit |-> FALSE,
              err |-> FALSE, fs |-> saveToCache(c.fs, path, o.body, t, f),
              fetched |-> TRUE, cache |-> c]
\* ServeFromCacheOrFetch returning the error of a failed stat.
ServeFromCacheOrFetchFailClosed(h, fs, r, t, o, f) ==
  IF h.cacheTTL <= 0 \/ h.cacheDir = ""
    THEN [status |-> o.status, body |-> o.body, hit |-> FALSE, err |-> o.err,
          fs |-> fs, fetched |-> TRUE, cache |-> NoCall]
  ELSE
    LET path == CachePath(h.cacheDir, r)
        c == serveFromCacheFile(fs, path, t, h.cacheTTL, f)
    IN  IF c.err
          THEN [status |-> 0, body |-> NoBody, hit |-> FALSE, err |-> TRUE,
                fs |-> c.fs, fetched |-> FALSE, cache |-> c]
        ELSE IF c.found
          THEN [status |-> 200, body |-> c.body, hit |-> TRUE, err |-> FALSE,
                fs |-> c.fs, fetched |-> FALSE, cache |-> c]
        ELSE IF o.err
          THEN [status |-> 0, body |-> NoBody, hit |-> FALSE, err |-> TRUE,
                fs |-> c.fs, fetched |-> TRUE, cache |-> c]
        ELSE IF o.status >= 200 /\ o.status < 300
          THEN [status |-> o.status, body |-> o.body, hit |-> FALSE,
                err |-> FALSE, fs |-> saveToCache(c.fs, path, o.body, t, f),
                fetched |-> TRUE, cache |-> c]
        ELSE [status |-> o.status, body |-> o.body, hit |-> FALSE,
              err |-> FALSE, fs |-> c.fs, fetched |-> TRUE, cache |-> c]
\* ServeFromCacheOrFetch without the test for a disabled cache.
ServeFromCacheOrFetchAlways(h, fs, r, t, o, f) ==
  LET path == CachePath(h.cacheDir, r)
      c == serveFromCacheFile(fs, path, t, h.cacheTTL, f)
  IN  IF c.found
        THEN [status |-> 200, body |-> c.body, hit |-> TRUE, err |-> FALSE,
              fs |-> c.fs, fetched |-> FALSE, cache |-> c]
      ELSE IF o.err
        THEN [status |-> 0, body |-> NoBody, hit |-> FALSE, err |-> TRUE,
              fs |-> c.fs, fetched |-> TRUE, cache |-> c]
      ELSE IF o.status >= 200 /\ o.status < 300
        THEN [status |-> o.status, body |-> o.body, hit |-> FALSE,
              err |-> FALSE, fs |-> saveToCache(c.fs, path, o.body, t, f),
              fetched |-> TRUE, cache |-> c]
      ELSE [status |-> o.status, body |-> o.body, hit |-> FALSE,
            err |-> FALSE, fs |-> c.fs, fetched |-> TRUE, cache |-> c]

ServeFromCacheOrFetch(h, fs, r, t, o, f) ==
  IF h.cacheTTL <= 0 \/ h.cacheDir = ""
    THEN [status |-> o.status, body |-> o.body, hit |-> FALSE, err |-> o.err,
          fs |-> fs, fetched |-> TRUE, cache |-> NoCall]
  ELSE
    LET path == CachePath(h.cacheDir, r)
        c == serveFromCacheFile(fs, path, t, h.cacheTTL, f)
    IN  IF c.found
          THEN [status |-> 200, body |-> c.body, hit |-> TRUE, err |-> FALSE,
                fs |-> c.fs, fetched |-> FALSE, cache |-> c]
        ELSE IF o.err
          THEN [status |-> 0, body |-> NoBody, hit |-> FALSE, err |-> TRUE,
                fs |-> c.fs, fetched |-> TRUE, cache |-> c]
        ELSE IF o.status >= 200 /\ o.status < 300
          THEN [status |-> o.status, body |-> o.body, hit |-> FALSE,
                err |-> FALSE, fs |-> saveToCache(c.fs, path, o.body, t, f),
                fetched |-> TRUE, cache |-> c]
        ELSE [status |-> o.status, body |-> o.body, hit |-> FALSE,
              err |-> FALSE, fs |-> c.fs, fetched |-> TRUE, cache |-> c]

CachePaths == {CachePath("cache", r) : r \in CacheReqs}

\* What a call did, as the properties below read it: the entry it found
\* (existed, age), the failures it ran into, what serveFromCacheFile answered
\* and left behind (found, removed), what fetchOrigin answered when it was
\* called, and what the caller got.
CallRecord(h, fs, r, t, o, f, res) ==
  LET path == CachePath(h.cacheDir, r)
      looked == res.cache # NoCall
      existed == fs[path] # NoFile
      age == IF existed THEN t - fs[path].modTime ELSE 0
      statErr == looked /\ f.stat
      readErr == looked /\ existed /\ ~statErr /\ age <= h.cacheTTL /\ f.read
      rmErr == /\ looked /\ existed /\ ~statErr /\ f.remove
               /\ (age > h.cacheTTL \/ readErr)
  IN  [method |-> r.Method, time |-> t, looked |-> looked, existed |-> existed,
       age |-> age, statErr |-> statErr, readErr |-> readErr, rmErr |-> rmErr,
       found |-> looked /\ res.cache.found,
       removed |-> looked /\ existed /\ res.cache.fs[path] = NoFile,
       mkdirErr |-> f.mkdir, writeErr |-> f.write # "ok",
       fetched |-> res.fetched,
       originErr |-> res.fetched /\ o.err,
       originStatus |-> IF res.fetched /\ ~o.err THEN o.status ELSE 0,
       originBody |-> IF res.fetched /\ ~o.err THEN o.body ELSE NoBody,
       status |-> res.status, body |-> res.body,
       hit |-> res.hit, err |-> res.err,
       stored |-> /\ res.fetched /\ ~res.err
                  /\ res.fs[path] = [modTime |-> t, body |-> res.body]]

\* What a later call for the same path needs to know of an earlier one:
\* whether it missed and got a 2xx answer, and then when, with which body,
\* and whether that body is what it left in the file.
Summary(rec) ==
  LET miss2xx == /\ rec.looked /\ ~rec.hit /\ rec.fetched /\ ~rec.err
                 /\ rec.status >= 200 /\ rec.status < 300
  IN  [miss2xx |-> miss2xx,
       time |-> IF miss2xx THEN rec.time ELSE 0,
       body |-> IF miss2xx THEN rec.body ELSE NoBody,
       stored |-> miss2xx /\ rec.stored]

\* The failures a request can run into: a failure is listed only for a
\* file-system call that the request makes.
FaultsFor(h, fs, r, t, o) ==
  LET path == CachePath(h.cacheDir, r)
      looked == ~(h.cacheTTL <= 0 \/ h.cacheDir = "")
      existed == fs[path] # NoFile
      fresh == existed /\ ~(t - fs[path].modTime > h.cacheTTL)
  IN  {f \in Faults :
         LET found == looked /\ ~f.stat /\ fresh /\ ~f.read
             saves == looked /\ ~found /\ ~o.err /\ o.status >= 200 /\ o.status < 300
         IN  /\ f.stat => looked
             /\ f.read => (looked /\ fresh)
             /\ f.mkdir => saves
             /\ (f.write # "ok") => saves
             /\ f.remove => \/ (looked /\ ~f.stat /\ existed /\ (~fresh \/ f.read))
                             \/ (saves /\ f.write # "ok")}

\* One request is handled from start to end.
Request(r, o, f) ==
  /\ handler # NoHandler
  /\ LET path == CachePath(handler.cacheDir, r)
         res == ServeFromCacheOrFetch(handler, files, r, now, o, f)
         rec == CallRecord(handler, files, r, now, o, f, res)
     IN  /\ files' = res.fs
         /\ calls' = [calls EXCEPT ![path] = Summary(rec)]
         /\ last' = [call |-> rec, before |-> calls[path]]
  /\ UNCHANGED <<now, handler, notCache>>

Tick ==
  /\ handler # NoHandler
  /\ now < MaxTime
  /\ now' = now + 1
  /\ last' = NoCall
  /\ UNCHANGED <<handler, files, calls, notCache>>

CacheInit ==
  /\ SupIdle
  /\ KeyIdle
  /\ now = 0
  /\ \E ttl \in CacheTTLs : handler = NewCacheHandler("cache", ttl)
  /\ files = [p \in CachePaths |-> NoFile]
  /\ calls = [p \in CachePaths |-> NoCall]
  /\ last = NoCall
  /\ CmpIdle /\ SweepIdle /\ ProxyIdle /\ TunnelIdle

CacheNext ==
  \/ \E r \in CacheReqs, o \in Origins :
       \E f \in FaultsFor(handler, files, r, now, o) : Request(r, o, f)
  \/ Tick

CacheSpec == CacheInit /\ [][CacheNext]_vars

\* The call that has just returned looked at an entry that was in the cache.
ReadEntry == last # NoCall /\ last.call.looked /\ last.call.existed

\* C7 (as stated): an entry stored at T and read at T+D, with no file-system
\* call failing, is a hit iff D < TTL and is a miss that deletes the entry
\* iff D >= TTL.
C7_HitIffYoungerThanTTL ==
  (ReadEntry /\ ~last.call.statErr /\ ~last.call.readErr /\ ~last.call.rmErr)
    => /\ last.call.found <=> last.call.age < handler.cacheTTL
       /\ (~last.call.found /\ last.call.removed)
            <=> last.call.age >= handler.cacheTTL

\* C7 (amended): an entry stored at T and read at T+D is a hit only if
\* D <= TTL; when D <= TTL and the stat and the read succeed it is a hit and
\* the entry stays; when D > TTL and the stat succeeds it is a miss and the
\* entry is deleted unless the removal fails.
C7_HitIffNotOlderThanTTL ==
  ReadEntry
    => /\ last.call.found => last.call.age <= handler.cacheTTL
       /\ (last.call.age <= handler.cacheTTL /\ ~last.call.statErr
             /\ ~last.call.readErr)
            => (last.call.found /\ ~last.call.removed)
       /\ (last.call.age > handler.cacheTTL /\ ~last.call.statErr)
            => (~last.call.found /\ (last.call.removed \/ last.call.rmErr))
       /\ (last.call.removed /\ last.call.age <= handler.cacheTTL)
            => last.call.readErr

C7_Witness ==
  /\ ReadEntry
  /\ handler.cacheTTL > 0
  /\ last.call.age = handler.cacheTTL
  /\ last.call.found
  /\ files[CachePath(handler.cacheDir, CHOOSE r \in CacheReqs : TRUE)] # NoFile

\* The call that has just returned follows, within the TTL, a call for the
\* same key that missed and got a 2xx answer from the origin.
FollowsMiss2xx ==
  /\ last # NoCall /\ last.call.looked
  /\ last.before # NoCall /\ last.before.miss2xx
  /\ last.call.time - last.before.time <= handler.cacheTTL

SecondIsHit ==
  /\ last.call.hit
  /\ last.call.body = last.before.body
  /\ ~last.call.fetched

StorageFailure(c) ==
  c.statErr \/ c.readErr \/ c.rmErr \/ c.mkdirErr \/ c.writeErr

\* C17: a failure of the cache storage (stat, read, removal of an expired or
\* unreadable entry, directory creation, write) never fails the request: the
\* call goes on to the origin and, when the fetch succeeds, returns the
\* origin's response with no error and servedFromCache false.  The call
\* returns an error exactly when it called the origin and the fetch failed.
C17_StorageFailsOpen ==
  last # NoCall =>
    LET c == last.call
    IN  /\ c.err <=> (c.fetched /\ c.originErr)
        /\ StorageFailure(c) => (c.fetched /\ ~c.hit)
        /\ (c.fetched /\ ~c.originErr) =>
              /\ ~c.err /\ ~c.hit
              /\ c.status = c.originStatus /\ c.body = c.originBody

\* A stat failure on a call whose fetch answered 200.
C17_Witness ==
  /\ last # NoCall
  /\ last.call.statErr /\ last.call.fetched /\ ~last.call.originErr
  /\ last.call.status = 200 /\ ~last.call.err

\* ---------------------------------------------------------------------------
\* Cache handlers for which caching is off: a TTL of zero, a negative TTL
\* (which NewCacheHandler turns into zero) or no directory.  The directory
\* they point at is empty or holds an entry written earlier.

DisabledHandlers ==
  {NewCacheHandler("cache", 0), NewCacheHandler("cache", -1),
   NewCacheHandler("", 1)}

DisabledPaths == {CachePath(d, r) : d \in {"", "cache"}, r \in CacheReqs}

DisabledCacheInit ==
  /\ SupIdle
  /\ KeyIdle
  /\ now = 0
  /\ handler \in DisabledHandlers
  /\ files \in {[p \in DisabledPaths |-> NoFile],
                [p \in DisabledPaths |-> [modTime |-> 0, body |-> "b2"]]}
  /\ calls = [p \in DisabledPaths |-> NoCall]
  /\ last = NoCall
  /\ CmpIdle /\ SweepIdle /\ ProxyIdle /\ TunnelIdle

DisabledCacheSpec == DisabledCacheInit /\ [][CacheNext]_vars

\* C28: a handler with a TTL that is not positive or with no directory hands
\* every request to the fetcher, once, and returns the fetcher's response
\* and error as they are with servedFromCache false; it looks at no cache
\* file and leaves the directory as it was.
C28_DisabledCacheDelegates ==
  [][(/\ handler # NoHandler
      /\ handler.cacheTTL <= 0 \/ handler.cacheDir = ""
      /\ last' # last /\ last' # NoCall)
       => /\ files' = files
          /\ ~last'.call.looked
          /\ last'.call.fetched
          /\ ~last'.call.hit
          /\ last'.call.err = last'.call.originErr
          /\ ~last'.call.err =>
               /\ last'.call.status = last'.call.originStatus
               /\ last'.call.body = last'.call.originBody]_vars

\* A handler without a directory has passed on a 200 answer while an entry
\* for the request lay in the directory, which is still there.
C28_Witness ==
  /\ handler # NoHandler /\ handler.cacheDir = ""
  /\ last # NoCall
  /\ last.call.fetched /\ ~last.call.hit
  /\ last.call.status = 200 /\ last.call.body = "b1"
  /\ \A p \in DOMAIN files : files[p] = [modTime |-> 0, body |-> "b2"]

\* ---------------------------------------------------------------------------
\* compareConfigs over pairs of snapshots

\* ProxyConfig.Domains: a slice, which is nil when the file names none.
DomainLists ==
  {[nil |-> TRUE, elems |-> <<>>], [nil |-> FALSE, elems |-> <<>>],
   [nil |-> FALSE, elems |-> <<"a">>]}

Addrs == {"0.0.0.0", "127.0.0.1"}

\* The snapshots with every field of the HTTP subtree that a file can set.
CmpConfigs ==
  {cfg \in [HTTP : [Enabled : BOOLEAN, Addr : Addrs, Port : Ports,
                    Static : StaticPaths,
                    ForwardProxy : [Enabled : BOOLEAN, Cache : CacheCfg,
                                    Domains : DomainLists]],
            ProxyCacheCleanup : CacheCleanupConfig] : validateConfig(cfg)}

CmpInit ==
  /\ SupIdle /\ KeyIdle /\ CacheIdle
  /\ SweepIdle /\ ProxyIdle /\ TunnelIdle
  /\ cmpOld \in CmpConfigs
  /\ cmpNew \in CmpConfigs
  /\ cmpFlags = NoFlags

\* restartServer, restartCleaner := compareConfigs(activeConfig, newCfg)
Compare ==
  /\ cmpFlags = NoFlags
  /\ cmpFlags' = compareConfigs(cmpOld, cmpNew)
  /\ UNCHANGED <<cmpOld, cmpNew, notCmp>>

CmpNext == Compare

CmpSpec == CmpInit /\ [][CmpNext]_vars

\* Some setting of the HTTP subtree has one value in a and another in b.
HTTPDiffers(a, b) ==
  \/ a.Enabled # b.Enabled
  \/ a.Addr # b.Addr
  \/ a.Port # b.Port
  \/ a.Static # b.Static
  \/ a.ForwardProxy.Enabled # b.ForwardProxy.Enabled
  \/ a.ForwardProxy.Cache.Enabled # b.ForwardProxy.Cache.Enabled
  \/ a.ForwardProxy.Cache.CacheDir # b.ForwardProxy.Cache.CacheDir
  \/ a.ForwardProxy.Cache.CacheTTL # b.ForwardProxy.Cache.CacheTTL
  \/ a.ForwardProxy.Domains.nil # b.ForwardProxy.Domains.nil
  \/ a.ForwardProxy.Domains.elems # b.ForwardProxy.Domains.elems

\* C20: for every pair of snapshots, compareConfigs answers restart-server
\* exactly when some setting of the HTTP subtree differs between the two; a
\* pair that differs in the cleanup interval only never gets restart-server.
C20_RestartServerIffHTTPDiffers ==
  cmpFlags # NoFlags =>
    /\ cmpFlags.restartServer <=> HTTPDiffers(cmpOld.HTTP, cmpNew.HTTP)
    /\ (/\ ~HTTPDiffers(cmpOld.HTTP, cmpNew.HTTP)
        /\ cmpOld.ProxyCacheCleanup.Interval
             # cmpNew.ProxyCacheCleanup.Interval)
         => ~cmpFlags.restartServer

\* Two snapshots with the same HTTP subtree and different intervals have
\* been compared.
C20_Witness ==
  /\ cmpFlags # NoFlags
  /\ cmpOld.HTTP = cmpNew.HTTP
  /\ cmpOld.ProxyCacheCleanup.Interval # cmpNew.ProxyCacheCleanup.Interval
  /\ ~cmpFlags.restartServer

\* ---------------------------------------------------------------------------
\* compareConfigs over pairs of snapshots that vary every setting the evictor
\* depends on: the cache may be disabled and its directory may be unset or
\* moved.

EvictorCacheDirs == {"", "cache", "cache2"}

EvictorConfigs ==
  {cfg \in [HTTP : [Enabled : {TRUE}, Addr : {"0.0.0.0"}, Port : Ports,
                    Static : StaticPaths,
                    ForwardProxy :
                      [Enabled : BOOLEAN,
                       Cache : [Enabled : BOOLEAN, CacheDir : EvictorCacheDirs,
                                CacheTTL : TTLStrings]]],
            ProxyCacheCleanup : CacheCleanupConfig] : validateConfig(cfg)}

EvictorCmpInit ==
  /\ SupIdle /\ KeyIdle /\ CacheIdle
  /\ SweepIdle /\ ProxyIdle /\ TunnelIdle
  /\ cmpOld \in EvictorConfigs
  /\ cmpNew \in EvictorConfigs
  /\ cmpFlags = NoFlags

EvictorCmpSpec == EvictorCmpInit /\ [][CmpNext]_vars

\* The boolean "evictor should run", spelled out on the three settings.
EvictorShouldRun(cfg) ==
  /\ cfg.HTTP.ForwardProxy.Enabled = TRUE
  /\ cfg.HTTP.ForwardProxy.Cache.Enabled = TRUE
  /\ cfg.HTTP.ForwardProxy.Cache.CacheDir # ""

\* The cleanup interval, the cache directory or the TTL differ.
EvictorSettingsDiffer(a, b) ==
  \/ a.ProxyCacheCleanup.Interval # b.ProxyCacheCleanup.Interval
  \/ a.HTTP.ForwardProxy.Cache.CacheDir # b.HTTP.ForwardProxy.Cache.CacheDir
  \/ a.HTTP.ForwardProxy.Cache.CacheTTL # b.HTTP.ForwardProxy.Cache.CacheTTL

\* C21: compareConfigs answers restart-evictor exactly when "evictor should
\* run" differs between the two snapshots, or is true in both and the
\* interval, the directory or the TTL differ; when the evictor should run in
\* neither snapshot, no change of these settings gives restart-evictor.
C21_RestartEvictorIffEvictorChanged ==
  cmpFlags # NoFlags =>
    /\ cmpFlags.restartCleaner <=>
         \/ EvictorShouldRun(cmpOld) # EvictorShouldRun(cmpNew)
         \/ /\ EvictorShouldRun(cmpOld) /\ EvictorShouldRun(cmpNew)
            /\ EvictorSettingsDiffer(cmpOld, cmpNew)
    /\ (~EvictorShouldRun(cmpOld) /\ ~EvictorShouldRun(cmpNew))
         => ~cmpFlags.restartCleaner

\* Two snapshots in neither of which the evictor should run, with different
\* interval, directory and TTL, have been compared.
C21_Witness ==
  /\ cmpFlags # NoFlags
  /\ ~EvictorShouldRun(cmpOld) /\ ~EvictorShouldRun(cmpNew)
  /\ cmpOld.ProxyCacheCleanup.Interval # cmpNew.ProxyCacheCleanup.Interval
  /\ cmpOld.HTTP.ForwardProxy.Cache.CacheDir
       # cmpNew.HTTP.ForwardProxy.Cache.CacheDir
  /\ cmpOld.HTTP.ForwardProxy.Cache.CacheTTL
       # cmpNew.HTTP.ForwardProxy.Cache.CacheTTL
  /\ ~cmpFlags.restartCleaner

\* ---------------------------------------------------------------------------
\* The evictor's sweep: runCleanup over a cache directory

\* The cache directory and what may be in it: "a" is a regular file or a
\* symbolic link, "c" a regular file, "d" a sub-directory and "d/b" a regular
\* file in it.  An entry is NoFile, or its kind and modification time.
SweepRoot == "cache"
SweepDirs == {"cache", "cache/d"}
SweepFiles == {"cache/a", "cache/c", "cache/d/b"}
SweepPaths == SweepDirs \cup SweepFiles

\* os.ReadDir(path): the names in the directory, sorted.
ReadDir(path) ==
  CASE path = "cache" -> <<"cache/a", "cache/c", "cache/d">>
    [] path = "cache/d" -> <<"cache/d/b">>
    [] OTHER -> <<>>

Parent(path) == IF path = "cache/d/b" THEN "cache/d" ELSE "cache"

SweepTimes == 0 .. MaxTime

Trees ==
  {t \in [SweepPaths -> {NoFile} \cup [kind : {"file", "symlink", "dir"},
                                        modTime : SweepTimes]] :
     /\ t["cache"] = [kind |-> "dir", modTime |-> 0]
     /\ t["cache/d"] \in {NoFile, [kind |-> "dir", modTime |-> 0]}
     /\ t["cache/a"] # NoFile => t["cache/a"].kind \in {"file", "symlink"}
     /\ t["cache/c"] # NoFile => t["cache/c"].kind = "file"
     /\ t["cache/d/b"] # NoFile =>
          (t["cache/d"] # NoFile /\ t["cache/d/b"].kind = "file")}

\* The file-system calls that fail during one sweep: the Lstat of the root,
\* the ReadDir of some directories, the Info of some entries, the Remove of
\* some entries.  A directory whose ReadDir fails lists no entry.
SweepFaults ==
  [lstat : BOOLEAN, readdir : SUBSET SweepDirs, info : SUBSET SweepFiles,
   remove : SUBSET SweepFiles]

NoSweepFaults == [lstat |-> FALSE, readdir |-> {}, info |-> {}, remove |-> {}]

\* walkFunc with an expiry test that is not strict.
walkFuncEager(st, path, err, minModTime, f) ==
  IF err THEN st
  ELSE IF st.fs[path].kind = "dir" THEN st
  ELSE IF path \in f.info THEN st
  ELSE IF st.fs[path].modTime <= minModTime
    THEN IF path \in f.remove THEN st
         ELSE [st EXCEPT !.fs[path] = NoFile, !.deletedCount = @ + 1]
  ELSE st
\* walkFunc giving up at the first entry whose info cannot be read.
walkFuncAbort(st, path, err, minModTime, f) ==
  IF err THEN st
  ELSE IF st.fs[path].kind = "dir" THEN st
  ELSE IF path \in f.info THEN [st EXCEPT !.err = TRUE]
  ELSE IF st.fs[path].modTime < minModTime
    THEN IF path \in f.remove THEN st
         ELSE [st EXCEPT !.fs[path] = NoFile, !.deletedCount = @ + 1]
  ELSE st
\* The walk's state st is the directory, the count of deletions, and whether
\* walkFunc has returned an error, which it never does.
walkFunc(st, path, err, minModTime, f) ==
  IF err THEN st
  ELSE IF st.fs[path].kind = "dir" THEN st
  ELSE IF path \in f.info THEN st
  ELSE IF st.fs[path].modTime < minModTime
    THEN IF path \in f.remove THEN st
         ELSE [st EXCEPT !.fs[path] = NoFile, !.deletedCount = @ + 1]
  ELSE st

RECURSIVE walkDir(_, _, _, _)
RECURSIVE walkEntries(_, _, _, _)

\* filepath.walkDir: the entry itself, then the entries of a directory.
walkDir(st, path, minModTime, f) ==
  IF st.fs[path] = NoFile THEN st
  ELSE
    LET isDir == st.fs[path].kind = "dir"
        st1 == walkFunc(st, path, FALSE, minModTime, f)
    IN  IF st1.err \/ ~isDir THEN st1
        ELSE IF path \in f.readdir
          THEN walkFunc(st1, path, TRUE, minModTime, f)
        ELSE walkEntries(st1, ReadDir(path), minModTime, f)

walkEntries(st, entries, minModTime, f) ==
  IF entries = <<>> \/ st.err THEN st
  ELSE walkEntries(walkDir(st, Head(entries), minModTime, f), Tail(entries),
                   minModTime, f)

\* filepath.WalkDir(cacheDir, walkFunc)
WalkDir(st, root, minModTime, f) ==
  IF f.lstat THEN walkFunc(st, root, TRUE, minModTime, f)
  ELSE walkDir(st, root, minModTime, f)

\* runCleanup(cacheDir, cacheTTL) started at time t.
runCleanup(fs, cacheDir, cacheTTL, t, f) ==
  WalkDir([fs |-> fs, deletedCount |-> 0, err |-> FALSE], cacheDir,
          t - cacheTTL, f)

\* An entry that the walk reaches when the calls in f fail.
Visited(fs, path, f) ==
  /\ fs[path] # NoFile
  /\ ~f.lstat
  /\ Parent(path) \notin f.readdir
  /\ "cache" \notin f.readdir

\* The failures a sweep can run into: a failure is listed only for a call
\* that the sweep makes.
SweepFaultsFor(fs, minModTime) ==
  {f \in SweepFaults :
     /\ \A d \in f.readdir : d = "cache" \/ Visited(fs, d, f)
     /\ f.lstat => f.readdir = {}
     /\ \A p \in f.info : Visited(fs, p, f)
     /\ \A p \in f.remove :
          /\ Visited(fs, p, f) /\ p \notin f.info
          /\ fs[p].modTime < minModTime}

\* One sweep runs from start to end with nothing else touching the directory.
RunCleanup(t, ttl, f) ==
  /\ swept = NoSweep
  /\ LET res == runCleanup(tree, SweepRoot, ttl, t, f)
     IN  /\ tree' = res.fs
         /\ swept' = [start |-> t, ttl |-> ttl, faults |-> f, before |-> tree,
                      deletedCount |-> res.deletedCount, err |-> res.err]
  /\ UNCHANGED notSweep

SweepInit ==
  /\ SupIdle /\ KeyIdle /\ CacheIdle
  /\ CmpIdle /\ ProxyIdle /\ TunnelIdle
  /\ tree \in Trees
  /\ swept = NoSweep

SweepNext ==
  /\ swept = NoSweep
  /\ \E t \in SweepTimes, ttl \in CacheTTLs :
       \E f \in SweepFaultsFor(tree, t - ttl) : RunCleanup(t, ttl, f)

SweepSpec == SweepInit /\ [][SweepNext]_vars

\* The entries a sweep has deleted.
Deleted == {p \in SweepPaths : swept.before[p] # NoFile /\ tree[p] = NoFile}

\* Older than the sweep's start less the TTL.
Expired(e) == e.modTime < swept.start - swept.ttl

Accessible(p) ==
  /\ Visited(swept.before, p, swept.faults)
  /\ p \notin swept.faults.info
  /\ p \notin swept.faults.remove

\* C19: whichever path cannot be accessed, whichever file's info cannot be
\* read and whichever expired file cannot be deleted, the sweep goes on:
\* every expired regular file that it can reach, read and delete is deleted,
\* and the count it returns is the number of entries it deleted.
C19_SweepSurvivesFailures ==
  swept # NoSweep =>
    /\ \A p \in SweepFiles :
         (/\ Accessible(p)
          /\ swept.before[p].kind = "file"
          /\ Expired(swept.before[p])) => p \in Deleted
    /\ swept.deletedCount = Cardinality(Deleted)
    /\ ~swept.err

\* The info of one expired file could not be read, another expired file
\* could not be deleted, and a third one, visited after both, was deleted.
C19_Witness ==
  /\ swept # NoSweep
  /\ swept.faults.info = {"cache/a"}
  /\ swept.faults.remove = {"cache/c"}
  /\ Expired(swept.before["cache/c"])
  /\ swept.before["cache/a"] # NoFile /\ Expired(swept.before["cache/a"])
  /\ Deleted = {"cache/d/b"}
  /\ swept.deletedCount = 1

\* ---------------------------------------------------------------------------
\* Requests for one cache key served at the same time, and the evictor
\* ---------------------------------------------------------------------------
\* net/http serves every request in a goroutine of its own and the cache takes
\* no lock, so the calls that serveFromCacheFile, fetchOrigin and saveToCache
\* make for different requests interleave at every file-system call and at
\* every wait for the origin.  In these specifications `calls` holds the
\* requests in flight by number, `files` the one cache file with its inode,
\* and `swept` the sweep of the evictor that is in progress.

MaxReqs == 2         \* requests for the key in flight at the same time

RacePath == CachePath("cache", CHOOSE r \in CacheReqs : TRUE)

\* What client.Do answers: an error, or the status line of the origin.
RaceOrigins ==
  {[err |-> TRUE, status |-> 0]} \cup [err : {FALSE}, status : {200, 300}]

\* What io.ReadAll answers: an error, or the whole body.
ReadResults ==
  {[err |-> TRUE, body |-> NoBody], [err |-> FALSE, body |-> "b1"]}

\* A request that has entered ServeFromCacheOrFetch.
\* pc      : the call it makes next
\* mt      : the modification time that os.Stat reported
\* ino     : the inode that os.WriteFile opened
\* fetched : io.ReadAll has returned the whole body of the origin
\* saved   : saveToCache has opened the cache file
\* relayed : HandleHTTP has written the status line and the body
NewCall ==
  [pc |-> "stat", mt |-> 0, ino |-> 0, status |-> 0, body |-> NoBody,
   hit |-> FALSE, err |-> FALSE, fetched |-> FALSE, saved |-> FALSE,
   relayed |-> FALSE]

\* serveFromCacheFile: os.Stat and the test of the TTL.
StatFile(i) ==
  /\ calls[i].pc = "stat"
  /\ calls' = [calls EXCEPT ![i] =
       IF files[RacePath] = NoFile THEN [@ EXCEPT !.pc = "miss"]
       ELSE IF now - files[RacePath].modTime > handler.cacheTTL
         THEN [@ EXCEPT !.pc = "expire"]
       ELSE [@ EXCEPT !.pc = "read", !.mt = files[RacePath].modTime]]
  /\ UNCHANGED <<now, handler, files, last, notCache>>

\* serveFromCacheFile: os.Remove of the entry that was found expired.
ExpireRemove(i) ==
  /\ calls[i].pc = "expire"
  /\ files' = Remove(files, RacePath, FALSE)
  /\ calls' = [calls EXCEPT ![i] = [@ EXCEPT !.pc = "miss"]]
  /\ UNCHANGED <<now, handler, last, notCache>>

\* serveFromCacheFile: os.ReadFile; a file that is gone is a miss, otherwise
\* what the file holds now is the body of a hit with status 200.
ReadFile(i) ==
  /\ calls[i].pc = "read"
  /\ calls' = [calls EXCEPT ![i] =
       IF files[RacePath] = NoFile THEN [@ EXCEPT !.pc = "miss"]
       ELSE [@ EXCEPT !.pc = "relay", !.hit = TRUE, !.status = 200,
                      !.body = files[RacePath].body]]
  /\ UNCHANGED <<now, handler, files, last, notCache>>

\* A miss that waits for the fetch of another request for the same key
\* instead of starting its own.
StartFetchShared(i) ==
  /\ calls[i].pc = "miss"
  /\ calls' = [calls EXCEPT ![i] =
       IF \E j \in DOMAIN calls : j # i /\ calls[j].pc \in {"do", "readall"}
         THEN [@ EXCEPT !.pc = "shared"]
         ELSE [@ EXCEPT !.pc = "do"]]
  /\ UNCHANGED <<now, handler, files, last, notCache>>

\* ServeFromCacheOrFetch calls fetchOrigin: PerformFetch sends the request.
StartFetch(i) ==
  /\ calls[i].pc = "miss"
  /\ calls' = [calls EXCEPT ![i] = [@ EXCEPT !.pc = "do"]]
  /\ UNCHANGED <<now, handler, files, last, notCache>>

\* PerformFetch handing the response on as soon as client.Do has returned.
DoReturnsStreaming(i, o) ==
  /\ calls[i].pc = "do"
  /\ calls' = [calls EXCEPT ![i] =
       IF o.err
         THEN [@ EXCEPT !.pc = "done", !.err = TRUE, !.status = 502]
       ELSE IF o.status >= 200 /\ o.status < 300
         THEN [@ EXCEPT !.pc = "open", !.status = o.status]
       ELSE [@ EXCEPT !.pc = "relay", !.status = o.status]]
  /\ UNCHANGED <<now, handler, files, last, notCache>>

\* PerformFetch: client.Do returns; an error travels up to HandleHTTP, which
\* answers 502.
DoReturns(i, o) ==
  /\ calls[i].pc = "do"
  /\ calls' = [calls EXCEPT ![i] =
       IF o.err
         THEN [@ EXCEPT !.pc = "done", !.err = TRUE, !.status = 502]
         ELSE [@ EXCEPT !.pc = "readall", !.status = o.status]]
  /\ UNCHANGED <<now, handler, files, last, notCache>>

\* PerformFetch: io.ReadAll(resp.Body); an error travels up like the one of
\* client.Do, otherwise ServeFromCacheOrFetch saves a 2xx answer and hands
\* any answer back.
ReadAll(i, res) ==
  /\ calls[i].pc = "readall"
  /\ calls' = [calls EXCEPT ![i] =
       IF res.err
         THEN [@ EXCEPT !.pc = "done", !.err = TRUE, !.status = 502]
       ELSE IF @.status >= 200 /\ @.status < 300
         THEN [@ EXCEPT !.pc = "open", !.body = res.body, !.fetched = TRUE]
       ELSE [@ EXCEPT !.pc = "relay", !.body = res.body, !.fetched = TRUE]]
  /\ UNCHANGED <<now, handler, files, last, notCache>>

\* saveToCache, os.WriteFile: the file is opened with O_CREATE and O_TRUNC,
\* which empties the file that is there or makes a new one.
OpenFile(i) ==
  /\ calls[i].pc = "open"
  /\ files' = [files EXCEPT ![RacePath] =
       IF @ = NoFile THEN [modTime |-> now, body |-> NoBody, ino |-> i]
       ELSE [@ EXCEPT !.modTime = now, !.body = NoBody]]
  /\ calls' = [calls EXCEPT ![i] =
       [@ EXCEPT !.pc = "write", !.saved = TRUE,
                 !.ino = files'[RacePath].ino]]
  /\ UNCHANGED <<now, handler, last, notCache>>

\* saveToCache, os.WriteFile: the data goes to the file that was opened,
\* which the path no longer names when the entry was removed meanwhile.
WriteFile(i) ==
  /\ calls[i].pc = "write"
  /\ files' = [files EXCEPT ![RacePath] =
       IF @ # NoFile /\ @.ino = calls[i].ino
         THEN [@ EXCEPT !.modTime = now, !.body = calls[i].body]
         ELSE @]
  /\ calls' = [calls EXCEPT ![i] = [@ EXCEPT !.pc = "relay"]]
  /\ UNCHANGED <<now, handler, last, notCache>>

\* HandleHTTP: copyHeaders, WriteHeader and io.Copy of the body.
Relay(i) ==
  /\ calls[i].pc = "relay"
  /\ calls' = [calls EXCEPT ![i] = [@ EXCEPT !.pc = "done", !.relayed = TRUE]]
  /\ UNCHANGED <<now, handler, files, last, notCache>>

RaceInit ==
  /\ SupIdle
  /\ KeyIdle
  /\ now = 0
  /\ handler = NewCacheHandler("cache", 1)
  /\ files = [p \in {RacePath} |-> NoFile]
  /\ calls = [i \in 1..MaxReqs |-> NewCall]
  /\ last = NoCall
  /\ CmpIdle /\ SweepIdle /\ ProxyIdle /\ TunnelIdle

RaceRequests ==
  \/ \E i \in DOMAIN calls : StatFile(i)
  \/ \E i \in DOMAIN calls : ExpireRemove(i)
  \/ \E i \in DOMAIN calls : ReadFile(i)
  \/ \E i \in DOMAIN calls : StartFetch(i)
  \/ \E i \in DOMAIN calls, o \in RaceOrigins : DoReturns(i, o)
  \/ \E i \in DOMAIN calls, res \in ReadResults : ReadAll(i, res)
  \/ \E i \in DOMAIN calls : OpenFile(i)
  \/ \E i \in DOMAIN calls : WriteFile(i)
  \/ \E i \in DOMAIN calls : Relay(i)

RaceNext ==
  \/ RaceRequests
  \/ Tick

RaceSpec == RaceInit /\ [][RaceNext]_vars

\* runCleanup: time.Now(), and the walk lists the directory.  A sweep that
\* finds the directory empty returns at once.
SweepList ==
  /\ swept = NoSweep
  /\ files[RacePath] # NoFile
  /\ swept' = [pc |-> "info", minModTime |-> now - handler.cacheTTL, mt |-> 0]
  /\ UNCHANGED <<tree, notSweep>>

\* walkFunc: d.Info() and the comparison with minModTime.
SweepInfo ==
  /\ swept # NoSweep
  /\ swept.pc = "info"
  /\ swept' =
       IF files[RacePath] = NoFile THEN NoSweep
       ELSE IF files[RacePath].modTime < swept.minModTime
         THEN [swept EXCEPT !.pc = "remove", !.mt = files[RacePath].modTime]
       ELSE NoSweep
  /\ UNCHANGED <<tree, notSweep>>

\* walkFunc: os.Remove(path), and the sweep returns.
SweepRemove ==
  /\ swept # NoSweep
  /\ swept.pc = "remove"
  /\ files' = Remove(files, RacePath, FALSE)
  /\ swept' = NoSweep
  /\ UNCHANGED <<tree, now, handler, calls, last, supVars, keyVars, cmpVars,
                 proxyVars, tunnelVars>>

\* An entry that an earlier request stored at time 0.
StoredEntry == [modTime |-> 0, body |-> "b1", ino |-> 0]

EvictRaceInit ==
  /\ SupIdle
  /\ KeyIdle
  /\ now = 0
  /\ handler = NewCacheHandler("cache", 1)
  /\ files \in [{RacePath} -> {NoFile, StoredEntry}]
  /\ calls = [i \in 1..MaxReqs |-> NewCall]
  /\ last = NoCall
  /\ CmpIdle /\ SweepIdle /\ ProxyIdle /\ TunnelIdle

EvictRaceNext ==
  \/ RaceRequests
  \/ Tick
  \/ SweepList
  \/ SweepInfo
  \/ SweepRemove

EvictRaceSpec == EvictRaceInit /\ [][EvictRaceNext]_vars

\* The request has left serveFromCacheFile without a hit.
PastMiss(c) == c.pc \notin {"stat", "expire", "read", "miss"} /\ ~c.hit

\* The request has called fetchOrigin itself: the call is in progress, has
\* failed, or has returned the body.
OwnFetch(c) == c.pc \in {"do", "readall"} \/ c.err \/ c.fetched

\* C35: misses for one key that are in progress at the same time are not
\* joined: every request that missed calls fetchOrigin itself, and every one
\* that got a 2xx answer opens the cache file itself, whatever the other
\* requests for the key are doing.
C35_EveryMissFetches ==
  \A i \in DOMAIN calls :
    /\ PastMiss(calls[i]) => OwnFetch(calls[i])
    /\ (/\ calls[i].fetched /\ calls[i].status >= 200 /\ calls[i].status < 300
        /\ calls[i].pc \in {"write", "relay", "done"}) => calls[i].saved

\* As many fetches are in progress as there are requests for the key.
C35_Witness ==
  /\ Cardinality({i \in DOMAIN calls : calls[i].pc \in {"do", "readall"}})
       = MaxReqs
  /\ MaxReqs > 1

\* C32: within one request the fetch has completed, i.e. io.ReadAll has
\* returned the whole body, before saveToCache opens the cache file and
\* before the answer of the origin is written to the client; a request
\* whose fetch failed neither opens the cache file nor relays anything and
\* is answered 502.
C32_FetchBeforeSaveAndRelay ==
  [][\A i \in DOMAIN calls :
       /\ (calls'[i].saved /\ ~calls[i].saved) => calls[i].fetched
       /\ (calls'[i].relayed /\ ~calls[i].relayed /\ ~calls[i].hit)
            => calls[i].fetched
       /\ calls'[i].err =>
            /\ ~calls'[i].saved /\ ~calls'[i].relayed /\ ~calls'[i].fetched
            /\ calls'[i].pc = "done" /\ calls'[i].status = 502]_vars

\* One request has fetched, saved and relayed a 200 answer; the fetch of
\* another has failed after the status line had arrived, and that request is
\* done with nothing saved or relayed.
C32_Witness ==
  /\ \E i \in DOMAIN calls :
       /\ calls[i].pc = "done" /\ ~calls[i].hit /\ calls[i].status = 200
       /\ calls[i].fetched /\ calls[i].saved /\ calls[i].relayed
  /\ \E i \in DOMAIN calls :
       /\ calls[i].pc = "done" /\ calls[i].err /\ calls[i].status = 502
       /\ ~calls[i].saved /\ ~calls[i].relayed
  /\ files[RacePath] # NoFile /\ files[RacePath].body = "b1"

\* The bodies that a request can have stored.
StoredBodies == {res.body : res \in {x \in ReadResults : ~x.err}}

\* C36: whichever way the steps of a request that saves an entry and of a
\* request that reads it interleave, a hit carries the whole body of some
\* stored answer, never an empty or a truncated one.
C36_HitIsComplete ==
  \A i \in DOMAIN calls : calls[i].hit => calls[i].body \in StoredBodies

\* C37: the evictor never deletes an entry that is within its TTL at the
\* moment of the deletion, also when the entry was stored again between the
\* sweep's reading of the modification time and its os.Remove.
C37_EvictsOnlyExpired ==
  [][(/\ swept # NoSweep /\ swept' = NoSweep
      /\ files[RacePath] # NoFile /\ files'[RacePath] = NoFile)
       => now - files[RacePath].modTime > handler.cacheTTL]_vars

\* ---------------------------------------------------------------------------
\* HandleConnect and the two transfer goroutines of a tunnel

\* The bytes each peer sends, numbered from 1, and the bytes a connection
\* holds in flight before a Write on it blocks.
MaxBytes == 2
MaxQueue == 1

\* "HTTP/1.1 200 Connection Established\r\n\r\n", as one item of the stream
\* to the client.
Established200 == 200

\* The two directions: "up" is transfer(destConn, clientConn), which copies
\* from the client to the destination; "down" is transfer(clientConn,
\* destConn).
Directions == {"up", "down"}

\* For each direction: the stream io.Copy reads from and the one it writes
\* to, the connections they belong to, and the peers at their far ends.
In(dir) == IF dir = "up" THEN "c2p" ELSE "d2p"
Out(dir) == IF dir = "up" THEN "p2d" ELSE "p2c"
SrcConn(dir) == IF dir = "up" THEN "clientConnClosed" ELSE "destConnClosed"
DstConn(dir) == IF dir = "up" THEN "destConnClosed" ELSE "clientConnClosed"
SrcPeer(dir) == IF dir = "up" THEN "clientClosed" ELSE "destClosed"
DstPeer(dir) == IF dir = "up" THEN "destClosed" ELSE "clientClosed"

\* The state of a CONNECT request whose head the server has read:
\*   target    r.URL.Host, the host:port to connect to
\*   hijacker  whether the ResponseWriter is an http.Hijacker
\*   status    the status http.Error answered with, 0 when it did not
\*   hc        where HandleConnect is
\*   c2p, d2p  bytes a peer has sent that the proxy has not read
\*   httpBuf   bytes of the client that the server's bufio.Reader holds
\*   p2d, p2c  bytes the proxy has written that the peer has not read
\*   dGot, cGot  what each peer has read
\*   cNext, dNext  the next byte each peer sends
\*   up, down  where each transfer goroutine is, and the byte it holds
\*   clientConnClosed, destConnClosed  Close() has been called on the conn
\*   clientClosed, destClosed  the peer has closed its side
NewTunnel ==
  [target |-> "h:443", hijacker |-> TRUE, status |-> 0,
   hc |-> "target", c2p |-> <<>>, d2p |-> <<>>, httpBuf |-> <<>>,
   p2d |-> <<>>, p2c |-> <<>>, dGot |-> <<>>, cGot |-> <<>>,
   cNext |-> 1, dNext |-> 1,
   up |-> [pc |-> "idle", hold |-> <<>>],
   down |-> [pc |-> "idle", hold |-> <<>>],
   clientConnClosed |-> FALSE, destConnClosed |-> FALSE,
   clientClosed |-> FALSE, destClosed |-> FALSE]

TunnelFrame == UNCHANGED notTunnel

\* The CONNECT requests: with or without a target, on a connection that can
\* or cannot be hijacked.
ConnectRequests ==
  {[NewTunnel EXCEPT !.target = t, !.hijacker = h] :
     t \in {"", "h:443"}, h \in BOOLEAN}

\* if targetHost == "": 400 and return.
CheckTarget ==
  /\ tun # NoTunnel /\ tun.hc = "target"
  /\ tun' = IF tun.target = ""
              THEN [tun EXCEPT !.hc = "badRequest", !.status = 400]
              ELSE [tun EXCEPT !.hc = "dial"]
  /\ TunnelFrame

\* net.DialTimeout("tcp", targetHost, 15*time.Second); 502 when it fails.
Dial(ok) ==
  /\ tun # NoTunnel /\ tun.hc = "dial"
  /\ tun' = IF ok THEN [tun EXCEPT !.hc = "hijack"]
            ELSE [tun EXCEPT !.hc = "badGateway", !.status = 502]
  /\ TunnelFrame

\* The server's reader takes what has arrived on the client's connection
\* while the handler has not hijacked it.
HTTPBuffer ==
  /\ tun # NoTunnel /\ tun.hc \in {"target", "dial", "hijack"}
  /\ tun.c2p # <<>>
  /\ tun' = [tun EXCEPT !.httpBuf = Append(@, Head(tun.c2p)),
                        !.c2p = Tail(@)]
  /\ TunnelFrame

\* Hijack without the test of w.(http.Hijacker).
HijackUnchecked ==
  /\ tun # NoTunnel /\ tun.hc = "hijack"
  /\ tun' = [tun EXCEPT !.hc = "write200"]
  /\ TunnelFrame

\* hijacker, ok := w.(http.Hijacker): 500 and destConn.Close() when the
\* writer is none.  clientConn, _, err := hijacker.Hijack(): the reader that
\* holds httpBuf is the second result, which is dropped.
Hijack ==
  /\ tun # NoTunnel /\ tun.hc = "hijack"
  /\ tun' = IF tun.hijacker
              THEN [tun EXCEPT !.hc = "write200"]
              ELSE [tun EXCEPT !.hc = "internalError", !.status = 500,
                               !.destConnClosed = TRUE]
  /\ TunnelFrame

\* clientConn.Write("HTTP/1.1 200 Connection Established\r\n\r\n"), which
\* fails when the client is gone; both connections are closed then.
Write200 ==
  /\ tun # NoTunnel /\ tun.hc = "write200"
  /\ tun' = IF tun.clientClosed
              THEN [tun EXCEPT !.hc = "failed", !.clientConnClosed = TRUE,
                               !.destConnClosed = TRUE]
              ELSE [tun EXCEPT !.hc = "spawn",
                               !.p2c = Append(@, Established200)]
  /\ TunnelFrame

\* go transfer(destConn, clientConn, ...); go transfer(clientConn, destConn, ...)
Spawn ==
  /\ tun # NoTunnel /\ tun.hc = "spawn"
  /\ tun' = [tun EXCEPT !.hc = "returned", !.up.pc = "read",
                        !.down.pc = "read"]
  /\ TunnelFrame

\* io.Copy's Read on the source: an error when the connection has been
\* closed here, the next byte when there is one, EOF when the peer has
\* closed; it blocks otherwise.
RelayRead(dir) ==
  /\ tun # NoTunnel /\ tun[dir].pc = "read"
  /\ \/ /\ tun[SrcConn(dir)]
        /\ tun' = [tun EXCEPT ![dir].pc = "closeSrc"]
     \/ /\ ~tun[SrcConn(dir)] /\ tun[In(dir)] # <<>>
        /\ tun' = [tun EXCEPT ![dir] = [pc |-> "write",
                                        hold |-> <<Head(tun[In(dir)])>>],
                              ![In(dir)] = Tail(@)]
     \/ /\ ~tun[SrcConn(dir)] /\ tun[In(dir)] = <<>> /\ tun[SrcPeer(dir)]
        /\ tun' = [tun EXCEPT ![dir].pc = "closeSrc"]
  /\ TunnelFrame

\* io.Copy's Write on the destination: an error when the connection has
\* been closed here or by the peer; it blocks while the connection holds
\* MaxQueue bytes that the peer has not read.
RelayWrite(dir) ==
  /\ tun # NoTunnel /\ tun[dir].pc = "write"
  /\ \/ /\ tun[DstConn(dir)] \/ tun[DstPeer(dir)]
        /\ tun' = [tun EXCEPT ![dir] = [pc |-> "closeSrc", hold |-> <<>>]]
     \/ /\ ~tun[DstConn(dir)] /\ ~tun[DstPeer(dir)]
        /\ Len(tun[Out(dir)]) < MaxQueue
        /\ tun' = [tun EXCEPT ![dir] = [pc |-> "read", hold |-> <<>>],
                              ![Out(dir)] = @ \o tun[dir].hold]
  /\ TunnelFrame

\* defer source.Close(), which runs first.
RelayCloseSrc(dir) ==
  /\ tun # NoTunnel /\ tun[dir].pc = "closeSrc"
  /\ tun' = [tun EXCEPT ![dir].pc = "closeDst", ![SrcConn(dir)] = TRUE]
  /\ TunnelFrame

\* defer destination.Close(), which runs last.
RelayCloseDst(dir) ==
  /\ tun # NoTunnel /\ tun[dir].pc = "closeDst"
  /\ tun' = [tun EXCEPT ![dir].pc = "done", ![DstConn(dir)] = TRUE]
  /\ TunnelFrame

\* The peers.  peer is "client" or "dest"; the client talks from the start,
\* the destination once it has been dialled.
PeerOut(peer) == IF peer = "client" THEN "c2p" ELSE "d2p"
PeerIn(peer) == IF peer = "client" THEN "p2c" ELSE "p2d"
PeerGot(peer) == IF peer = "client" THEN "cGot" ELSE "dGot"
PeerNext(peer) == IF peer = "client" THEN "cNext" ELSE "dNext"
PeerClosed(peer) == IF peer = "client" THEN "clientClosed" ELSE "destClosed"
PeerConn(peer) ==
  IF peer = "client" THEN "clientConnClosed" ELSE "destConnClosed"
Peers == {"client", "dest"}

Connected(peer) ==
  /\ tun # NoTunnel
  /\ peer = "dest" =>
       tun.hc \notin {"target", "badRequest", "dial", "badGateway"}
  /\ ~tun[PeerClosed(peer)]

PeerSend(peer) ==
  /\ Connected(peer) /\ ~tun[PeerConn(peer)]
  /\ tun[PeerNext(peer)] <= MaxBytes
  /\ Len(tun[PeerOut(peer)]) < MaxQueue
  /\ tun' = [tun EXCEPT ![PeerOut(peer)] = Append(@, tun[PeerNext(peer)]),
                        ![PeerNext(peer)] = @ + 1]
  /\ TunnelFrame

PeerRecv(peer) ==
  /\ Connected(peer)
  /\ tun[PeerIn(peer)] # <<>>
  /\ tun' = [tun EXCEPT ![PeerGot(peer)] = Append(@, Head(tun[PeerIn(peer)])),
                        ![PeerIn(peer)] = Tail(@)]
  /\ TunnelFrame

PeerClose(peer) ==
  /\ Connected(peer)
  /\ tun' = [tun EXCEPT ![PeerClosed(peer)] = TRUE]
  /\ TunnelFrame

TunnelInit ==
  /\ SupIdle /\ KeyIdle /\ CacheIdle
  /\ CmpIdle /\ SweepIdle /\ ProxyIdle
  /\ tun \in ConnectRequests

TunnelNext ==
  \/ CheckTarget
  \/ \E ok \in BOOLEAN : Dial(ok)
  \/ HTTPBuffer
  \/ Hijack
  \/ Write200
  \/ Spawn
  \/ \E dir \in Directions : RelayRead(dir)
  \/ \E dir \in Directions : RelayWrite(dir)
  \/ \E dir \in Directions : RelayCloseSrc(dir)
  \/ \E dir \in Directions : RelayCloseDst(dir)
  \/ \E peer \in Peers : PeerSend(peer)
  \/ \E peer \in Peers : PeerRecv(peer)
  \/ \E peer \in Peers : PeerClose(peer)

TunnelSpec == TunnelInit /\ [][TunnelNext]_vars

\* The handler and the two goroutines are scheduled; the peers owe nothing.
TunnelFairSpec ==
  /\ TunnelSpec
  /\ WF_vars(CheckTarget)
  /\ WF_vars(\E ok \in BOOLEAN : Dial(ok))
  /\ WF_vars(Hijack) /\ WF_vars(Write200) /\ WF_vars(Spawn)
  /\ \A dir \in Directions :
       /\ WF_vars(RelayRead(dir)) /\ WF_vars(RelayWrite(dir))
       /\ WF_vars(RelayCloseSrc(dir)) /\ WF_vars(RelayCloseDst(dir))

\* ---------------------------------------------------------------------------
\* HandleConnect with a Hijack call that can fail

\* What hijacker.Hijack() returns: the connection, or an error together
\* with no connection (what net/http returns with every error) or with one
\* (which the Hijacker interface does not exclude).
HijackResults == {"ok", "errNilConn", "errConn"}

\* The test of w.(http.Hijacker) and the call of Hijack.  On an error the
\* handler calls clientConn.Close() first, which panics on a nil
\* connection; destConn.Close() is the statement after it.
HijackCall(res) ==
  /\ tun # NoTunnel /\ tun.hc = "hijack"
  /\ tun' = IF ~tun.hijacker
              THEN [tun EXCEPT !.hc = "internalError", !.status = 500,
                               !.destConnClosed = TRUE]
            ELSE IF res = "ok" THEN [tun EXCEPT !.hc = "write200"]
            ELSE IF res = "errNilConn" THEN [tun EXCEPT !.hc = "panicked"]
            ELSE [tun EXCEPT !.hc = "failed", !.clientConnClosed = TRUE,
                             !.destConnClosed = TRUE]
  /\ TunnelFrame

ConnectNext ==
  \/ CheckTarget
  \/ \E ok \in BOOLEAN : Dial(ok)
  \/ HTTPBuffer
  \/ \E res \in HijackResults : HijackCall(res)
  \/ Write200
  \/ Spawn
  \/ \E dir \in Directions : RelayRead(dir)
  \/ \E dir \in Directions : RelayWrite(dir)
  \/ \E dir \in Directions : RelayCloseSrc(dir)
  \/ \E dir \in Directions : RelayCloseDst(dir)
  \/ \E peer \in Peers : PeerSend(peer)
  \/ \E peer \in Peers : PeerRecv(peer)
  \/ \E peer \in Peers : PeerClose(peer)

ConnectSpec == TunnelInit /\ [][ConnectNext]_vars

\* HandleConnect has ended after a successful dial without a tunnel.
EndedWithoutTunnel ==
  tun # NoTunnel /\ tun.hc \in {"internalError", "failed", "panicked"}

\* C40: on every path of HandleConnect that ends without a tunnel after the
\* dial has succeeded (no hijacker, an error of Hijack, a failed write of
\* the 200 line) destConn has been closed when the handler returns, and the
\* handler does not panic.
C40_DestConnClosedOnFailure ==
  EndedWithoutTunnel => (tun.destConnClosed /\ tun.hc # "panicked")

\* Both goroutines run, and a peer has closed its side.
TunnelPeerGone ==
  /\ tun # NoTunnel /\ tun.hc = "returned"
  /\ tun.clientClosed \/ tun.destClosed

TunnelTornDown ==
  /\ tun # NoTunnel
  /\ tun.up.pc = "done" /\ tun.down.pc = "done"
  /\ tun.clientConnClosed /\ tun.destConnClosed

\* C14: once a peer of an established tunnel has closed its side, both
\* transfer goroutines eventually return and both connections are closed.
C14_TunnelTornDown == TunnelPeerGone ~> TunnelTornDown

\* s is the first bytes of what a peer sent: 1, 2, ...
InOrder(s) == \A i \in 1 .. Len(s) : s[i] = i

\* C15: the client reads the 200 line before anything else; what the
\* destination has read is, byte for byte and in order, the first bytes the
\* client sent after the CONNECT head, whether or not the server had
\* buffered them before the hijack; and likewise what the client has read
\* after the 200 line is the first bytes the destination sent.
C15_BytesRelayedInOrder ==
  tun # NoTunnel =>
    /\ InOrder(tun.dGot)
    /\ tun.cGot # <<>> =>
         (Head(tun.cGot) = Established200 /\ InOrder(Tail(tun.cGot)))

\* ---------------------------------------------------------------------------
\* HandleHTTP: the self-request check, the dispatch to the cache or to the
\* fetcher, and the headers that are copied on the way

LowerCase == <<"a", "b", "c", "d", "e", "f", "g", "h", "i", "j", "k", "l",
    "m", "n", "o", "p", "q", "r", "s", "t", "u", "v", "w", "x", "y", "z">>
UpperCase == <<"A", "B", "C", "D", "E", "F", "G", "H", "I", "J", "K", "L",
    "M", "N", "O", "P", "Q", "R", "S", "T", "U", "V", "W", "X", "Y", "Z">>
Digits == <<"0", "1", "2", "3", "4", "5", "6", "7", "8", "9">>

\* The place of c in table, or 0.
IndexIn(c, table) ==
  IF \E i \in 1 .. Len(table) : table[i] = c
    THEN CHOOSE i \in 1 .. Len(table) : table[i] = c
    ELSE 0

\* strings.ToLower over ASCII
ToLowerASCII(s) ==
  [i \in 1 .. Len(s) |->
     LET up == IndexIn(s[i], UpperCase)
     IN  IF up > 0 THEN LowerCase[up] ELSE s[i]]

\* The first and the last place of c in s, or 0.
IndexByte(s, c) ==
  IF \E i \in 1 .. Len(s) : s[i] = c
    THEN CHOOSE i \in 1 .. Len(s) : s[i] = c /\ \A j \in 1 .. i - 1 : s[j] # c
    ELSE 0

LastIndex(s, c) ==
  IF \E i \in 1 .. Len(s) : s[i] = c
    THEN CHOOSE i \in 1 .. Len(s) :
           s[i] = c /\ \A j \in i + 1 .. Len(s) : s[j] # c
    ELSE 0

\* http.CanonicalHeaderKey: the first letter and every letter after a hyphen
\* in upper case, the others in lower case; a key that holds a byte that is
\* not allowed in a header name is returned as it is.
RECURSIVE canonicalFrom(_, _)
canonicalFrom(k, upper) ==
  IF k = <<>> THEN <<>>
  ELSE
    LET c == Head(k)
        lo == IndexIn(c, LowerCase)
        up == IndexIn(c, UpperCase)
        c1 == IF upper /\ lo > 0 THEN UpperCase[lo]
              ELSE IF ~upper /\ up > 0 THEN LowerCase[up]
              ELSE c
    IN  <<c1>> \o canonicalFrom(Tail(k), c = "-")

validHeaderFieldByte(c) ==
  \/ IndexIn(c, LowerCase) > 0
  \/ IndexIn(c, UpperCase) > 0
  \/ IndexIn(c, Digits) > 0
  \/ c = "-"

canonicalMIMEHeaderKey(k) ==
  IF \A i \in 1 .. Len(k) : validHeaderFieldByte(k[i])
    THEN canonicalFrom(k, TRUE)
    ELSE k

\* The header names of the model, as clients and origins may spell them.
HopNames ==
  {<<"C", "o", "n", "n", "e", "c", "t", "i", "o", "n">>, <<"K", "e", "e",
      "p", "-", "A", "l", "i", "v", "e">>, <<"P", "r", "o", "x", "y", "-",
          "A", "u", "t", "h", "e", "n", "t", "i", "c", "a", "t", "e">>,
   <<"P", "r", "o", "x", "y", "-", "A", "u", "t", "h", "o", "r", "i", "z",
       "a", "t", "i", "o", "n">>, <<"T", "E">>, <<"T", "r", "a", "i", "l",
           "e", "r", "s">>, <<"T", "r", "a", "n", "s", "f", "e", "r", "-",
               "E", "n", "c", "o", "d", "i", "n", "g">>,
   <<"U", "p", "g", "r", "a", "d", "e">>}

ProxyConnection == <<"P", "r", "o", "x", "y", "-", "C", "o", "n", "n", "e",
    "c", "t", "i", "o", "n">>
XCacheStatus == <<"X", "-", "C", "a", "c", "h", "e", "-", "S", "t", "a", "t",
    "u", "s">>
Accept == <<"A", "c", "c", "e", "p", "t">>

SpelledNames ==
  {<<"t", "e">>, <<"T", "e">>, <<"c", "o", "n", "n", "e", "c", "t", "i", "o",
      "n">>, <<"U", "P", "G", "R", "A", "D", "E">>, <<"k", "e", "e", "p",
          "-", "a", "l", "i", "v", "e">>,
   <<"p", "r", "o", "x", "y", "-", "c", "o", "n", "n", "e", "c", "t", "i",
       "o", "n">>, <<"p", "r", "o", "x", "y", "-", "a", "u", "t", "h", "o",
           "r", "i", "z", "a", "t", "i", "o", "n">>, <<"x", "-", "c", "a",
               "c", "h", "e", "-", "s", "t", "a", "t", "u", "s">>}

RawNames ==
  HopNames \cup SpelledNames \cup {ProxyConnection, XCacheStatus, Accept}

\* The names cached-entry responses are given.
ContentLength == <<"C", "o", "n", "t", "e", "n", "t", "-", "L", "e", "n",
    "g", "t", "h">>
LastModified == <<"L", "a", "s", "t", "-", "M", "o", "d", "i", "f", "i", "e",
    "d">>
ContentType == <<"C", "o", "n", "t", "e", "n", "t", "-", "T", "y", "p", "e">>

HeaderKeys ==
  RawNames \cup {canonicalMIMEHeaderKey(k) : k \in RawNames}
    \cup {ContentLength, LastModified, ContentType}

\* Each name with its canonical form, computed once.
CanonicalOf == {<<k, canonicalMIMEHeaderKey(k)>> : k \in HeaderKeys}

\* CanonicalHeaderKey keeping the letters as they are.
CanonicalHeaderKeyAsIs(k) == k
CanonicalHeaderKey(k) == (CHOOSE e \in CanonicalOf : e[1] = k)[2]

\* An http.Header: the values under each of its keys.
EmptyHeader == [k \in {} |-> <<>>]

HeaderOf(names, v) == [k \in names |-> <<v>>]

Present(h) == DOMAIN h

\* Header.Values(key), with the key as it is given.
Values(h, k) == IF k \in DOMAIN h THEN h[k] ELSE <<>>

\* Header.Add, Header.Set and Header.Del, which canonicalise the key.
Add(h, k, v) ==
  LET ck == CanonicalHeaderKey(k)
  IN  [x \in DOMAIN h \cup {ck} |->
         IF x = ck THEN Append(Values(h, ck), v) ELSE h[x]]

Set(h, k, v) ==
  LET ck == CanonicalHeaderKey(k)
  IN  [x \in DOMAIN h \cup {ck} |-> IF x = ck THEN <<v>> ELSE h[x]]

Del(h, k) ==
  LET ck == CanonicalHeaderKey(k)
  IN  [x \in DOMAIN h \ {ck} |-> h[x]]

RECURSIVE AddAll(_, _, _)
AddAll(h, k, vv) ==
  IF vv = <<>> THEN h ELSE AddAll(Add(h, k, Head(vv)), k, Tail(vv))

\* hopByHopHeaders in copyHeaders
hopByHopHeaders ==
  {<<"C", "o", "n", "n", "e", "c", "t", "i", "o", "n">>, <<"K", "e", "e",
      "p", "-", "A", "l", "i", "v", "e">>, <<"P", "r", "o", "x", "y", "-",
          "A", "u", "t", "h", "e", "n", "t", "i", "c", "a", "t", "e">>,
   <<"P", "r", "o", "x", "y", "-", "A", "u", "t", "h", "o", "r", "i", "z",
       "a", "t", "i", "o", "n">>, <<"T", "e">>, <<"T", "r", "a", "i", "l",
           "e", "r", "s">>, <<"T", "r", "a", "n", "s", "f", "e", "r", "-",
               "E", "n", "c", "o", "d", "i", "n", "g">>,
   <<"U", "p", "g", "r", "a", "d", "e">>}

\* copyHeaders(dst, src).  The keys of src are taken in some order, which
\* shows in dst only when two keys of src have one canonical form.
RECURSIVE copyKeys(_, _, _)
copyKeys(dst, src, keys) ==
  IF keys = {} THEN dst
  ELSE
    LET k == CHOOSE k \in keys : TRUE
    IN  copyKeys(IF CanonicalHeaderKey(k) \in hopByHopHeaders THEN dst
                 ELSE AddAll(dst, k, src[k]),
                 src, keys \ {k})

copyHeaders(dst, src) == copyKeys(dst, src, Present(src))

\* net.SplitHostPort: host and port, both empty when it fails.
SplitHostPort(hostport) ==
  LET n == Len(hostport)
      i == LastIndex(hostport, ":")
      fail == [host |-> <<>>, port |-> <<>>, err |-> TRUE]
  IN  IF i = 0 THEN fail
      ELSE IF hostport[1] = "["
        THEN LET end == IndexByte(hostport, "]")
             IN  IF end = 0 \/ end + 1 # i THEN fail
                 ELSE IF IndexByte(SubSeq(hostport, 2, n), "[") > 0 THEN fail
                 ELSE IF IndexByte(SubSeq(hostport, end + 1, n), "]") > 0
                   THEN fail
                 ELSE [host |-> SubSeq(hostport, 2, end - 1),
                       port |-> SubSeq(hostport, i + 1, n), err |-> FALSE]
      ELSE IF IndexByte(SubSeq(hostport, 1, i - 1), ":") > 0 THEN fail
      ELSE IF IndexByte(hostport, "[") > 0 \/ IndexByte(hostport, "]") > 0
        THEN fail
      ELSE [host |-> SubSeq(hostport, 1, i - 1),
            port |-> SubSeq(hostport, i + 1, n), err |-> FALSE]

\* strconv.Atoi of an unsigned decimal; 0 when it fails.
RECURSIVE digitsValue(_, _)
digitsValue(s, acc) ==
  IF s = <<>> THEN acc
  ELSE digitsValue(Tail(s), acc * 10 + (IndexIn(Head(s), Digits) - 1))

Atoi(s) ==
  IF s # <<>> /\ \A i \in 1 .. Len(s) : IndexIn(s[i], Digits) > 0
    THEN digitsValue(s, 0)
    ELSE 0

\* The IP literals of the model, and whether net.ParseIP(host).IsLoopback().
LoopbackIPs == {<<"1", "2", "7", ".", "0", ".", "0", ".", "1">>, <<":", ":",
    "1">>}
IsLoopbackIP(host) == host \in LoopbackIPs

Localhost == <<"l", "o", "c", "a", "l", "h", "o", "s", "t">>

\* The check at the head of HandleHTTP.
isSelfRequest(rHost, serverPort) ==
  LET sp == SplitHostPort(rHost)
      reqHost == IF sp.host = <<>> THEN rHost ELSE sp.host
      reqPort == Atoi(sp.port)
      isLoopback == IsLoopbackIP(reqHost)
  IN  /\ reqHost = Localhost \/ isLoopback
      /\ reqPort = serverPort \/ reqPort = 0

\* ShouldCacheDomain with a domain matching every host that starts with it.
ShouldCacheDomainPrefix(p, host) ==
  IF ~p.Cache.Enabled \/ p.Cache.CacheDir = "" THEN FALSE
  ELSE
    LET hostLower == ToLowerASCII(host)
    IN  \E i \in 1 .. Len(p.Domains) :
          LET d == ToLowerASCII(p.Domains[i])
          IN  Len(d) <= Len(hostLower) /\ SubSeq(hostLower, 1, Len(d)) = d

\* ProxyConfig.ShouldCacheDomain(host)
ShouldCacheDomain(p, host) ==
  IF ~p.Cache.Enabled \/ p.Cache.CacheDir = "" THEN FALSE
  ELSE
    LET colon == IndexByte(host, ":")
        hostOnly == IF colon = 0 THEN host ELSE SubSeq(host, 1, colon - 1)
        hostLower == ToLowerASCII(hostOnly)
    IN  \E i \in 1 .. Len(p.Domains) : ToLowerASCII(p.Domains[i]) = hostLower

\* NewHandler(cfg): the handler has a cache only when caching is enabled, a
\* directory is named and the TTL is a positive duration.
NewHandler(cfg) ==
  [config |-> cfg,
   cache |->
     IF cfg.Cache.Enabled /\ cfg.Cache.CacheDir # ""
       THEN LET cacheTTL == GetCacheTTL(cfg.Cache)
            IN  IF cacheTTL = DurationError \/ cacheTTL <= 0 THEN NoHandler
                ELSE NewCacheHandler(cfg.Cache.CacheDir, cacheTTL)
       ELSE NoHandler]

\* The request PerformFetch sends to the origin.
PerformFetch(origReq) ==
  [Method |-> origReq.Method, URL |-> origReq.URL,
   Header |-> Del(Del(copyHeaders(EmptyHeader, origReq.Header),
                      ProxyConnection),
                  <<"P", "r", "o", "x", "y", "-", "A", "u", "t", "h", "o",
                      "r", "i", "z", "a", "t", "i", "o", "n">>)]

\* len(bodyBytes) for the bodies of the model.
BodyLen(body) ==
  CASE body = NoBody -> 0
    [] body = "b" -> 1
    [] body \in Bodies -> 2

\* strconv.Itoa for the lengths of the model's bodies.
Itoa(n) == <<"0", "1", "2">>[n + 1]

\* ModTime().UTC().Format(http.TimeFormat): one text for each clock value.
FormatTime(t) == <<"t0", "t1", "t2", "t3", "t4">>[t + 1]

\* mime.TypeByExtension(filepath.Ext(path)): every key ends in ".cache", for
\* which no type is registered, so the fallback is taken.
TypeByExtension(path) == "application/octet-stream"

\* The response of serveFromCacheFile without a Content-Length.
CachedHeaderNoLength(path, body, modTime) ==
  Set(Set(EmptyHeader, LastModified, FormatTime(modTime)),
      ContentType, TypeByExtension(path))

\* The headers serveFromCacheFile gives the response it makes up.
CachedHeader(path, body, modTime) ==
  Set(Set(Set(EmptyHeader, ContentLength, Itoa(BodyLen(body))),
          LastModified, FormatTime(modTime)),
      ContentType, TypeByExtension(path))

\* No file-system call fails.
NoFaults ==
  [stat |-> FALSE, read |-> FALSE, remove |-> FALSE, mkdir |-> FALSE,
   write |-> "ok"]

\* r.URL.IsAbs()
IsAbs(u) == u.Scheme # <<>>

\* The request with the URL HandleHTTP goes on with.
Reconstruct(r) ==
  IF IsAbs(r.URL) THEN r
  ELSE [r EXCEPT !.URL.Scheme = <<"h", "t", "t", "p">>, !.URL.Host = r.Host]

\* What HandleHTTP did: the status, body and headers it wrote, whether it
\* answered through the self-request check (selfRejected) or from a fetched
\* or cached response (fromResult), whether it went to the cache layer
\* (consulted), what the cache layer answered (hit, fetched), the request sent
\* to the origin and the origin's answer when there was a fetch, and the cache
\* directory before and after.
HTTPError(code, fs, before, selfRejected, consulted, fetched, out, o) ==
  [status |-> code, body |-> NoBody, header |-> EmptyHeader,
   selfRejected |-> selfRejected, fromResult |-> FALSE,
   consulted |-> consulted, hit |-> FALSE, fetched |-> fetched,
   outbound |-> out, origin |-> o, before |-> before, fs |-> fs]

HandleHTTP(h, serverPort, fs, r, t, o, f) ==
  IF isSelfRequest(r.Host, serverPort) /\ ~IsAbs(r.URL)
    THEN HTTPError(404, fs, fs, TRUE, FALSE, FALSE, NoRequest, NoCall)
  ELSE IF ~IsAbs(r.URL) /\ r.Host = <<>>
    THEN HTTPError(400, fs, fs, FALSE, FALSE, FALSE, NoRequest, NoCall)
  ELSE
    LET r1 == Reconstruct(r)
        shouldCache == /\ h.cache # NoHandler
                       /\ ShouldCacheDomain(h.config, r1.URL.Host)
        res == IF shouldCache
                 THEN ServeFromCacheOrFetch(h.cache, fs, r1, t, o, f)
                 ELSE [status |-> o.status, body |-> o.body, hit |-> FALSE,
                       err |-> o.err, fs |-> fs, fetched |-> TRUE,
                       cache |-> NoCall]
        out == IF res.fetched THEN PerformFetch(r1) ELSE NoRequest
        origin == IF res.fetched
                    THEN [err |-> o.err, status |-> o.status, body |-> o.body]
                    ELSE NoCall
        status == IF shouldCache THEN (IF res.hit THEN "HIT" ELSE "MISS")
                  ELSE "BYPASS"
        response ==
          IF res.hit
            THEN LET path == CachePath(h.cache.cacheDir, r1)
                 IN  CachedHeader(path, res.body, fs[path].modTime)
            ELSE o.header
    IN  IF res.err
          THEN [HTTPError(502, res.fs, fs, FALSE, shouldCache, res.fetched,
                          out, origin)
                  EXCEPT !.header = IF shouldCache THEN EmptyHeader
                                    ELSE Set(EmptyHeader, XCacheStatus,
                                             "BYPASS")]
        ELSE [status |-> res.status, body |-> res.body,
              header |-> copyHeaders(Set(EmptyHeader, XCacheStatus, status),
                                     response),
              selfRejected |-> FALSE, fromResult |-> TRUE,
              consulted |-> shouldCache, hit |-> res.hit,
              fetched |-> res.fetched, outbound |-> out, origin |-> origin,
              before |-> fs, fs |-> res.fs]

\* The Host headers of the model: a name, with a port or without one.
HostPorts == {<<"8", "0", "8", "0">>, <<"9", "0", "9", "0">>}

HostHeader(name, port) ==
  LET h == IF IndexByte(name, ":") > 0 THEN <<"[">> \o name \o <<"]">>
           ELSE name
  IN  IF port = <<>> THEN h ELSE h \o <<":">> \o port

HostNames ==
  {Localhost, <<"1", "2", "7", ".", "0", ".", "0", ".", "1">>, <<":", ":",
      "1">>, <<"1", "0", ".", "0", ".", "0", ".", "5">>, <<"e", "x", "a",
          "m", "p", "l", "e", ".", "c", "o", "m">>}

HostHeaders ==
  {HostHeader(n, p) : n \in HostNames, p \in HostPorts \cup {<<>>}}
    \cup {<<":", ":", "1">>, <<>>}

\* The headers a request or a response carries: none, one name in one of
\* its spellings, or every name in its usual spelling.
HeaderSets ==
  {EmptyHeader}
    \cup {HeaderOf({k}, "v") : k \in RawNames}
    \cup {HeaderOf(HopNames \cup {ProxyConnection, XCacheStatus, Accept}, "v")}

\* The plain-HTTP requests.  CacheableReqs are the two requests of the cache
\* model for the cacheable host, in absolute form and, for the first, in
\* origin form with a Host header; HeaderReqs are the same in absolute form
\* with every set of headers; HostReqs are a request in origin form and one
\* in absolute form for every Host header.
CacheableReqs ==
  {[Method |-> r.Method, URL |-> r.URL, Host |-> r.URL.Host,
    Header |-> HeaderOf({Accept}, "v"), Body |-> ""] : r \in CacheReqs}
  \cup
  {[Method |-> r.Method,
    URL |-> [r.URL EXCEPT !.Scheme = <<>>, !.Host = <<>>],
    Host |-> r.URL.Host, Header |-> HeaderOf({Accept}, "v"), Body |-> ""] :
     r \in {q \in CacheReqs : q.URL.Scheme = <<"h", "t", "t", "p">>}}

HeaderReqs ==
  {[Method |-> r.Method, URL |-> r.URL, Host |-> r.URL.Host, Header |-> h,
    Body |-> ""] : r \in CacheReqs, h \in HeaderSets}

HostReqs ==
  {[Method |-> <<"G", "E", "T">>,
    URL |-> [Scheme |-> s, Host |-> IF s = <<>> THEN <<>> ELSE host,
             Path |-> <<"/", "p">>, RawQuery |-> <<>>],
    Host |-> host, Header |-> HeaderOf({Accept}, "v"), Body |-> ""] :
     host \in HostHeaders, s \in {<<>>, <<"h", "t", "t", "p">>}}

\* What client.Do answers: an error, or a status, a body and headers.  A
\* status below 200 other than 101 never comes out of client.Do.
PlainOrigins ==
  {[err |-> TRUE, status |-> 0, body |-> NoBody, header |-> EmptyHeader]}
    \cup [err : {FALSE}, status : {200}, body : Bodies,
          header : {EmptyHeader}]
    \cup [err : {FALSE}, status : {299, 300}, body : {"b1"},
          header : {EmptyHeader}]
    \cup [err : {FALSE}, status : {101}, body : {NoBody},
          header : {EmptyHeader}]

HeaderOrigins ==
  [err : {FALSE}, status : {200, 300}, body : {"b1"},
   header : HeaderSets \ {EmptyHeader}]

\* The requests with the answers their origins give.
ProxyPairs ==
  (CacheableReqs \X (PlainOrigins \cup HeaderOrigins))
    \cup (HeaderReqs \X PlainOrigins)
    \cup (HostReqs \X PlainOrigins)

\* The proxy's configurations: caching on or off, a TTL of an hour or none,
\* and the cacheable host in the allow-list or not.
ProxyCfgs ==
  [Enabled : {TRUE},
   Cache : [Enabled : BOOLEAN, CacheDir : CacheDirs, CacheTTL : {"1h", "0"}],
   Domains : {<<>>, <<<<"A">>>>}]

\* Where the server listens.
ListenAddrs == {<<"0", ".", "0", ".", "0", ".", "0">>, <<"1", "0", ".", "0",
    ".", "0", ".", "5">>}

Listens == [addr : ListenAddrs, port : Ports]

\* The handlers with the listeners they sit behind.
ProxySetups ==
  (ProxyCfgs \X {[addr |-> <<"0", ".", "0", ".", "0", ".", "0">>,
      port |-> 8080]})
    \cup ({[Enabled |-> TRUE,
            Cache |-> [Enabled |-> TRUE, CacheDir |-> "cache",
                       CacheTTL |-> "1h"],
            Domains |-> <<<<"A">>>>]} \X Listens)

\* The failures a request can run into on its way through HandleHTTP.
ProxyFaultsFor(h, serverPort, fs, r, t, o) ==
  IF /\ ~(isSelfRequest(r.Host, serverPort) /\ ~IsAbs(r.URL))
     /\ ~(~IsAbs(r.URL) /\ r.Host = <<>>)
     /\ h.cache # NoHandler
     /\ ShouldCacheDomain(h.config, Reconstruct(r).URL.Host)
    THEN FaultsFor(h.cache, fs, Reconstruct(r), t, o)
    ELSE {NoFaults}

\* One request goes through HandleHTTP from start to end.
ServeHTTP(r, o, f) ==
  /\ proxyH # NoHandler /\ proxyOut = NoCall
  /\ \E res \in {HandleHTTP(proxyH, listen.port, files, r, now, o, f)} :
       /\ proxyIn' = r
       /\ proxyOut' = res
       /\ files' = res.fs
  /\ UNCHANGED <<proxyH, listen, now, handler, calls, last,
                 supVars, keyVars, cmpVars, sweepVars, tunnelVars>>

\* The response has gone out.
ResponseSent ==
  /\ proxyOut # NoCall
  /\ proxyIn' = NoRequest
  /\ proxyOut' = NoCall
  /\ UNCHANGED <<proxyH, listen, notProxy>>

ProxyTick ==
  /\ proxyH # NoHandler /\ proxyOut = NoCall
  /\ now < MaxTime
  /\ now' = now + 1
  /\ UNCHANGED <<proxyH, listen, proxyIn, proxyOut, handler, files, calls,
                 last, supVars, keyVars, cmpVars, sweepVars, tunnelVars>>

ProxyInit ==
  /\ SupIdle /\ KeyIdle
  /\ CmpIdle /\ SweepIdle /\ TunnelIdle
  /\ now = 0
  /\ handler = NoHandler
  /\ files = [p \in CachePaths |-> NoFile]
  /\ calls = <<>>
  /\ last = NoCall
  /\ \E s \in ProxySetups : proxyH = NewHandler(s[1]) /\ listen = s[2]
  /\ proxyIn = NoRequest
  /\ proxyOut = NoCall

ProxyNext ==
  \/ /\ proxyOut = NoCall
     /\ \E pr \in ProxyPairs :
          \E f \in ProxyFaultsFor(proxyH, listen.port, files, pr[1], now,
                                  pr[2]) :
            ServeHTTP(pr[1], pr[2], f)
  \/ ResponseSent
  \/ ProxyTick

ProxySpec == ProxyInit /\ [][ProxyNext]_vars

\* The request that has just been handled went to the cache layer, which
\* fetched the origin and got a status outside 200..299.
NonSuccessMiss ==
  /\ proxyOut # NoCall
  /\ proxyOut.consulted /\ proxyOut.fetched
  /\ ~proxyOut.origin.err
  /\ ~(proxyOut.origin.status >= 200 /\ proxyOut.origin.status < 300)

\* C11: for a cacheable host whose origin answers with a status outside
\* 200..299, no cache file is created or modified (a file that is there
\* afterwards is the file that was there before), the answer is not marked
\* as served from the cache, and the client gets the origin's status and
\* body as they are.
C11_NonSuccessNotCached ==
  NonSuccessMiss =>
    /\ \A p \in CachePaths :
         proxyOut.fs[p] = NoFile \/ proxyOut.fs[p] = proxyOut.before[p]
    /\ ~proxyOut.hit
    /\ proxyOut.fromResult
    /\ proxyOut.status = proxyOut.origin.status
    /\ proxyOut.body = proxyOut.origin.body

\* A 300 answer for a request whose entry was in the cache and had expired.
C11_Witness ==
  /\ NonSuccessMiss
  /\ proxyOut.origin.status = 300 /\ proxyOut.status = 300
  /\ \E p \in CachePaths : proxyOut.before[p] # NoFile

\* The hop-by-hop names of the claim, whatever the case of their letters.
HopNamesLower == {ToLowerASCII(n) : n \in HopNames}

IsHopByHop(k) == ToLowerASCII(k) \in HopNamesLower

\* C12: no hop-by-hop header (Connection, Keep-Alive, Proxy-Authenticate,
\* Proxy-Authorization, TE, Trailers, Transfer-Encoding, Upgrade, in any
\* letter case) is among the headers of the request sent to the origin or
\* among the headers copied to the client's response, and the request sent
\* to the origin has no Proxy-Connection header either.
C12_NoHopByHopHeaders ==
  proxyOut # NoCall =>
    /\ proxyOut.outbound # NoRequest =>
         \A k \in Present(proxyOut.outbound.Header) :
           /\ ~IsHopByHop(k)
           /\ ToLowerASCII(k) # ToLowerASCII(ProxyConnection)
    /\ proxyOut.fromResult =>
         \A k \in Present(proxyOut.header) : ~IsHopByHop(k)

\* A request that carried "te" in lower case has been sent on.
C12_Witness ==
  /\ proxyOut # NoCall /\ proxyOut.outbound # NoRequest
  /\ Present(proxyIn.Header) = {<<"t", "e">>}
  /\ Present(proxyOut.outbound.Header) = {}

\* The Host header names the proxy's own listening address: the configured
\* address or a loopback alias, with the configured port (port 80 when the
\* header has none).
TargetsSelf(host) ==
  \E n \in {listen.addr, Localhost} \cup LoopbackIPs :
    \/ \E p \in HostPorts : Atoi(p) = listen.port /\ host = HostHeader(n, p)
    \/ listen.port = 80 /\ host = HostHeader(n, <<>>)

\* C13: a request in origin form whose Host header names the proxy's own
\* listening address is answered 404 without going to the fetcher or the
\* cache, and a request in origin form that names another address is not
\* answered by the self-request check.
C13_SelfRequestsRejected ==
  (proxyOut # NoCall /\ ~IsAbs(proxyIn.URL)) =>
    /\ TargetsSelf(proxyIn.Host) =>
         /\ proxyOut.selfRejected /\ proxyOut.status = 404
         /\ ~proxyOut.fetched /\ ~proxyOut.consulted
    /\ ~TargetsSelf(proxyIn.Host) => ~proxyOut.selfRejected

\* C16: a response made from a fetched or cached result has exactly one
\* X-Cache-Status value: HIT exactly when the body came from a cache entry,
\* MISS exactly when the host is cacheable and the origin was fetched, BYPASS
\* exactly when the cache layer was not consulted.
C16_OneCacheStatus ==
  (proxyOut # NoCall /\ proxyOut.fromResult) =>
    LET vv == Values(proxyOut.header, XCacheStatus)
    IN  /\ Len(vv) = 1
        /\ vv[1] = "HIT" <=> proxyOut.hit
        /\ vv[1] = "MISS" <=> (proxyOut.consulted /\ proxyOut.fetched)
        /\ vv[1] = "BYPASS" <=> ~proxyOut.consulted

\* ---------------------------------------------------------------------------
\* Hits after answers of every 2xx kind: `last` keeps the answer of the
\* origin that the entry in the cache was stored from.

\* What the origins answer: an error, or a status with a body and headers.
ReplayOrigins ==
  {[err |-> TRUE, status |-> 0, body |-> NoBody, header |-> EmptyHeader]}
    \cup [err : {FALSE}, status : {200, 201, 206, 300}, body : {"b1"},
          header : {EmptyHeader,
                    HeaderOf({Accept, ContentType, ContentLength}, "v")}]
    \cup [err : {FALSE}, status : {204}, body : {NoBody},
          header : {EmptyHeader, HeaderOf({Accept}, "v")}]

\* One request goes through HandleHTTP from start to end.
ServeAndRecord(r, o, f) ==
  /\ proxyH # NoHandler /\ proxyOut = NoCall
  /\ \E res \in {HandleHTTP(proxyH, listen.port, files, r, now, o, f)} :
       \E path \in {CachePath(proxyH.cache.cacheDir, Reconstruct(r))} :
         LET wrote == /\ res.consulted /\ res.fetched /\ ~o.err
                      /\ o.status >= 200 /\ o.status < 300
                      /\ ~f.mkdir /\ f.write # "open"
         IN  /\ proxyIn' = r
             /\ proxyOut' = res
             /\ files' = res.fs
             /\ last' = IF res.fs[path] = NoFile THEN NoCall
                        ELSE IF wrote
                          THEN [status |-> o.status, body |-> o.body,
                                header |-> o.header]
                        ELSE last
  /\ UNCHANGED <<proxyH, listen, now, handler, calls,
                 supVars, keyVars, cmpVars, sweepVars, tunnelVars>>

ReplayInit ==
  /\ SupIdle /\ KeyIdle
  /\ CmpIdle /\ SweepIdle /\ TunnelIdle
  /\ now = 0
  /\ handler = NoHandler
  /\ files = [p \in CachePaths |-> NoFile]
  /\ calls = <<>>
  /\ last = NoCall
  /\ proxyH = NewHandler([Enabled |-> TRUE,
                          Cache |-> [Enabled |-> TRUE, CacheDir |-> "cache",
                                     CacheTTL |-> "1h"],
                          Domains |-> <<<<"A">>>>])
  /\ listen = [addr |-> <<"0", ".", "0", ".", "0", ".", "0">>, port |-> 8080]
  /\ proxyIn = NoRequest
  /\ proxyOut = NoCall

ReplayNext ==
  \/ /\ proxyOut = NoCall
     /\ \E r \in CacheableReqs, o \in ReplayOrigins :
          \E f \in ProxyFaultsFor(proxyH, listen.port, files, r, now, o) :
            ServeAndRecord(r, o, f)
  \/ ResponseSent
  \/ ProxyTick

ReplaySpec == ReplayInit /\ [][ReplayNext]_vars

\* The entry that the request which has just been handled found.
FoundEntry ==
  proxyOut.before[CachePath(proxyH.cache.cacheDir, Reconstruct(proxyIn))]

\* C33: every response served from the cache has status 200, whatever 2xx
\* status the origin had answered when the entry was stored, and its headers
\* are Content-Length with the length of the stored body, Last-Modified with
\* the file's modification time and a Content-Type guessed from the file
\* name (next to the proxy's X-Cache-Status); no header of the origin's
\* answer is replayed.
C33_HitIs200WithMadeUpHeaders ==
  (proxyOut # NoCall /\ proxyOut.hit) =>
    \E found \in {FoundEntry} :
      /\ proxyOut.status = 200
      /\ proxyOut.body = found.body
      /\ Present(proxyOut.header)
           = {XCacheStatus, ContentLength, LastModified, ContentType}
      /\ Values(proxyOut.header, XCacheStatus) = <<"HIT">>
      /\ Values(proxyOut.header, ContentLength)
           = <<Itoa(BodyLen(found.body))>>
      /\ Values(proxyOut.header, LastModified)
           = <<FormatTime(found.modTime)>>
      /\ Values(proxyOut.header, ContentType) = <<"application/octet-stream">>
      /\ last # NoCall
      /\ \A k \in Present(last.header) :
           k \in Present(proxyOut.header)
             => Values(proxyOut.header, k) # last.header[k]

\* A hit on an entry that was stored from a 206 answer which carried
\* headers, among them a Content-Type and a Content-Length.
C33_Witness ==
  /\ proxyOut # NoCall /\ proxyOut.hit
  /\ proxyOut.status = 200 /\ proxyOut.body = "b1"
  /\ last # NoCall /\ last.status = 206
  /\ Present(last.header) = {Accept, ContentType, ContentLength}

\* ---------------------------------------------------------------------------
\* The cacheable-domain list in HandleHTTP: requests for the listed host, for
\* the listed host with a port, and for hosts that only resemble it, under
\* every setting of the cache.

CacheableDomainLists == {<<>>, <<<<"A">>>>, <<<<"c">>, <<"a">>>>}

DomainCfgs ==
  [Enabled : {TRUE},
   Cache : [Enabled : BOOLEAN, CacheDir : {"", "cache"},
            CacheTTL : {"1h", "0"}],
   Domains : CacheableDomainLists]

DomainReqs ==
  {[Method |-> r.Method, URL |-> r.URL, Host |-> r.URL.Host,
    Header |-> HeaderOf({Accept}, "v"), Body |-> ""] : r \in VariantReqs}
  \cup
  {[Method |-> r.Method,
    URL |-> [r.URL EXCEPT !.Scheme = <<>>, !.Host = <<>>],
    Host |-> r.URL.Host, Header |-> HeaderOf({Accept}, "v"), Body |-> ""] :
     r \in {q \in VariantReqs : q.URL.Scheme = <<"h", "t", "t", "p">>}}

DomainOrigins ==
  {[err |-> TRUE, status |-> 0, body |-> NoBody, header |-> EmptyHeader]}
    \cup [err : {FALSE}, status : {200}, body : {"b1", "b2"},
          header : {EmptyHeader}]

DomainPaths == {CachePath("cache", r) : r \in VariantReqs}

DomainInit ==
  /\ SupIdle /\ KeyIdle
  /\ CmpIdle /\ SweepIdle /\ TunnelIdle
  /\ now = 0
  /\ handler = NoHandler
  /\ files = [p \in DomainPaths |-> NoFile]
  /\ calls = <<>>
  /\ last = NoCall
  /\ \E cfg \in DomainCfgs :
       /\ proxyH = NewHandler(cfg)
       /\ listen = [addr |-> <<"0", ".", "0", ".", "0", ".", "0">>,
                    port |-> 8080]
  /\ proxyIn = NoRequest
  /\ proxyOut = NoCall

DomainNext ==
  \/ /\ proxyOut = NoCall
     /\ \E r \in DomainReqs, o \in DomainOrigins :
          \E f \in ProxyFaultsFor(proxyH, listen.port, files, r, now, o) :
            ServeHTTP(r, o, f)
  \/ ResponseSent
  \/ ProxyTick

DomainSpec == DomainInit /\ [][DomainNext]_vars

\* The host of the URL HandleHTTP goes on with, without its port.
FinalHostNoPort ==
  LET host == Reconstruct(proxyIn).URL.Host
      colon == IndexByte(host, ":")
  IN  IF colon = 0 THEN host ELSE SubSeq(host, 1, colon - 1)

DomainListed ==
  \E i \in 1 .. Len(proxyH.config.Domains) :
    ToLowerASCII(proxyH.config.Domains[i]) = ToLowerASCII(FinalHostNoPort)

\* HandleHTTP got past the self-request and the missing-host checks.
ReachedDispatch ==
  /\ proxyOut # NoCall
  /\ ~proxyOut.selfRejected
  /\ IsAbs(proxyIn.URL) \/ proxyIn.Host # <<>>

\* C29: the dispatcher consults the cache only when the final URL's host,
\* without its port and compared without regard to case, equals an entry of
\* the domain list and caching is enabled with a non-empty directory; for
\* every other host the request goes to the fetcher, the response is marked
\* BYPASS and the cache directory is left as it was.
C29_CacheOnlyForListedHosts ==
  ReachedDispatch =>
    /\ proxyOut.consulted =>
         /\ DomainListed
         /\ proxyH.config.Cache.Enabled
         /\ proxyH.config.Cache.CacheDir # ""
    /\ ~DomainListed =>
         /\ ~proxyOut.consulted
         /\ proxyOut.fetched
         /\ proxyOut.outbound = PerformFetch(Reconstruct(proxyIn))
         /\ Values(proxyOut.header, XCacheStatus) = <<"BYPASS">>
         /\ proxyOut.fs = proxyOut.before

\* A request for the listed host, in another case and with a port, went to
\* the cache; a request for a host that starts with the listed one did not.
C29_Witness ==
  /\ ReachedDispatch
  /\ proxyH.config.Domains = <<<<"A">>>>
  /\ Reconstruct(proxyIn).URL.Host = <<"a", ":", "8", "1">>
  /\ proxyOut.consulted
  /\ proxyOut.fetched

\* ---------------------------------------------------------------------------
\* The root handler: a CONNECT request goes to HandleConnect, every other
\* request through the mux to HandleHTTP

DispatchInit == ProxyInit \/ TunnelInit

DispatchNext ==
  \/ proxyH # NoHandler /\ ProxyNext
  \/ tun # NoTunnel /\ TunnelNext

DispatchSpec == DispatchInit /\ [][DispatchNext]_vars

\* HandleConnect has returned.
ConnectReturned ==
  tun.hc \in {"badRequest", "badGateway", "internalError", "failed",
              "returned"}

\* What C27 says of plain requests and of a CONNECT without a target.
FailureMappingCommon ==
  /\ proxyOut # NoCall =>
       /\ (~IsAbs(proxyIn.URL) /\ proxyIn.Host = <<>>)
            => /\ proxyOut.status = 400
               /\ ~proxyOut.fetched /\ ~proxyOut.consulted
               /\ proxyOut.fs = proxyOut.before
       /\ (proxyOut.fetched /\ proxyOut.origin.err)
            => /\ proxyOut.status = 502
               /\ ~proxyOut.fromResult
               /\ \A path \in DOMAIN proxyOut.fs :
                    proxyOut.fs[path] # NoFile =>
                      proxyOut.fs[path] = proxyOut.before[path]
       /\ proxyH # NoHandler
  /\ tun # NoTunnel =>
       /\ tun.target = "" =>
            /\ tun.hc \in {"target", "badRequest"}
            /\ ~tun.destConnClosed /\ ~tun.destClosed
            /\ tun.hc = "badRequest" => tun.status = 400
       /\ tun.status # 0 =>
            /\ tun.up.pc = "idle" /\ tun.down.pc = "idle"
            /\ tun.p2c = <<>> /\ tun.p2d = <<>>

\* C27 as stated: a request in origin form without a Host gets 400 and no
\* fetch; a failed fetch gets 502 on the cache path and on the bypass path;
\* a CONNECT without a target gets 400 and no dial; a CONNECT whose writer
\* cannot be hijacked gets 500.  A failure starts no relay and leaves the
\* handler in place.
C27_FailureMapping ==
  /\ FailureMappingCommon
  /\ (/\ tun # NoTunnel /\ tun.target # "" /\ ~tun.hijacker
      /\ ConnectReturned)
       => tun.status = 500

\* C27 with the order of the checks: the target is dialled before the
\* writer is tested, so a CONNECT whose writer cannot be hijacked gets 500,
\* with the connection to the target closed again, when the dial succeeded
\* and 502 when it failed.
C27_FailureMappingDialFirst ==
  /\ FailureMappingCommon
  /\ (/\ tun # NoTunnel /\ tun.target # "" /\ ~tun.hijacker
      /\ ConnectReturned)
       => \/ tun.hc = "internalError" /\ tun.status = 500
             /\ tun.destConnClosed
          \/ tun.hc = "badGateway" /\ tun.status = 502

\* A CONNECT on a connection that cannot be hijacked was answered 500 after
\* its target had been dialled.
C27_Witness ==
  /\ tun # NoTunnel
  /\ tun.target # "" /\ ~tun.hijacker
  /\ tun.hc = "internalError"
  /\ tun.status = 500
  /\ tun.destConnClosed

====
